---- MODULE Spec2Model ----
(***************************************************************************)
(* Model of internal/counter/counter.go of passkey-origin-validator:       *)
(* the label extractor getLabel, the origin authorization scan             *)
(* ValidateWellKnownJSON, the census CountLabels / CountLabelsFromFile,    *)
(* FormatResults, and the count and validate commands that call them.      *)
(*                                                                         *)
(* Strings are sequences of tokens.  A token is either a separator         *)
(* ("." or "://") or a run of characters holding no separator, so two      *)
(* token sequences are equal exactly when the strings they spell are.      *)
(***************************************************************************)
EXTENDS Integers, Sequences, FiniteSets, TLC

(* ------------------------------------------------------------------ *)
(* Program constants                                                   *)
(* ------------------------------------------------------------------ *)

MaxLabels == 5

StatusSuccess == 0
StatusBadRelyingPartyIDJSONParseError == 1
StatusBadRelyingPartyIDNoJSONMatch == 2
StatusBadRelyingPartyIDNoJSONMatchHitLimits == 3

(* ------------------------------------------------------------------ *)
(* Bounds of the model                                                 *)
(* ------------------------------------------------------------------ *)

\* longest free tail appended to a filler prefix in a listed origin array
MaxTail == 2
\* most labels of a host fed to the label extractor on its own
MaxHostLabels == 3
\* largest Count of a LabelCount handed to FormatResults on its own
MaxCount == 12
\* most labels listed in such a LabelCount
MaxFound == 2
\* calls that run concurrently
MaxCalls == 2
\* longest free tail of a list in the runs checked for termination
MaxFairTail == 1

(* ------------------------------------------------------------------ *)
(* Strings                                                             *)
(* ------------------------------------------------------------------ *)

Dot == "."
SchemeSep == "://"
EmptyString == <<>>

Min(a, b) == IF a < b THEN a ELSE b

\* strings.ToLower on one token (only the tokens of the model that hold
\* upper-case letters change)
ToLower(tok) ==
    CASE tok = "HTTPS" -> "https"
      [] tok = "Origins" -> "origins"
      [] tok = "FOO" -> "foo"
      [] OTHER -> tok

\* strings.Index(s, "."): position of the first dot, 0 when there is none
\* (Go's -1)
DotIndex(s) ==
    IF \E p \in 1..Len(s) : s[p] = Dot
    THEN CHOOSE p \in 1..Len(s) : s[p] = Dot /\ \A q \in 1..(p - 1) : s[q] # Dot
    ELSE 0

\* strings.LastIndex(s, "."), 0 when there is none
LastDotIndex(s) ==
    IF \E p \in 1..Len(s) : s[p] = Dot
    THEN CHOOSE p \in 1..Len(s) : s[p] = Dot /\ \A q \in (p + 1)..Len(s) : s[q] # Dot
    ELSE 0

HasSuffix(s, suffix) ==
    /\ Len(suffix) <= Len(s)
    /\ SubSeq(s, Len(s) - Len(suffix) + 1, Len(s)) = suffix

\* strings.TrimSuffix: s without the trailing suffix, s itself when s does
\* not end with it
TrimSuffix(s, suffix) ==
    IF HasSuffix(s, suffix) THEN SubSeq(s, 1, Len(s) - Len(suffix)) ELSE s

(* ------------------------------------------------------------------ *)
(* net/url.Parse, as far as counter.go reads its result (Scheme, Host) *)
(* ------------------------------------------------------------------ *)

URL(scheme, host) == [err |-> FALSE, Scheme |-> scheme, Host |-> host]
URLError == [err |-> TRUE, Scheme |-> "", Host |-> EmptyString]

\* strings.ToLower on a string
FoldCase(s) == [k \in DOMAIN s |-> ToLower(s[k])]

\* a parser that keeps the letter case of the scheme
ParseURLKeepingSchemeCase(s) ==
    IF Len(s) >= 1 /\ s[1] = SchemeSep THEN URLError
    ELSE IF Len(s) >= 2 /\ s[2] = SchemeSep
         THEN URL(s[1], SubSeq(s, 3, Len(s)))
         ELSE URL("", EmptyString)

\* url.Parse: a string starting with ':' has no scheme before the colon and
\* is an error ("missing protocol scheme"); scheme://authority gives the
\* lower-cased scheme and the authority as Host, letter case kept; a string
\* without "://" is a path only, with empty Scheme and Host.
ParseURL(s) ==
    IF Len(s) >= 1 /\ s[1] = SchemeSep THEN URLError
    ELSE IF Len(s) >= 2 /\ s[2] = SchemeSep
         THEN URL(ToLower(s[1]), SubSeq(s, 3, Len(s)))
         ELSE URL("", EmptyString)

(* ------------------------------------------------------------------ *)
(* golang.org/x/net/publicsuffix.PublicSuffix                          *)
(* ------------------------------------------------------------------ *)

\* the rules of the public suffix list that the hosts of the model can meet
PublicSuffixRules ==
    { <<"com">>, <<"org">>, <<"net">>, <<"de">>, <<"in">>, <<"uk">>,
      <<"co", Dot, "uk">> }

\* positions at which a dot-separated suffix of domain starts
LabelStarts(domain) ==
    { p \in 1..Len(domain) : domain[p] # Dot /\ (p = 1 \/ domain[p - 1] = Dot) }

\* a lookup that knows one-label rules only
PublicSuffixLastLabelOnly(domain) ==
    SubSeq(domain, LastDotIndex(domain) + 1, Len(domain))

\* the longest suffix of domain that is a rule of the list; when no rule
\* matches, the default rule "*": the last label
PublicSuffix(domain) ==
    LET hits == { p \in LabelStarts(domain) :
                    SubSeq(domain, p, Len(domain)) \in PublicSuffixRules }
    IN  IF hits # {}
        THEN SubSeq(domain, CHOOSE p \in hits : \A q \in hits : p <= q, Len(domain))
        ELSE SubSeq(domain, LastDotIndex(domain) + 1, Len(domain))

(* ------------------------------------------------------------------ *)
(* getLabel                                                            *)
(* ------------------------------------------------------------------ *)

\* getLabel(domain) (label, error): error when domain has no dot, else
\* domain with its public suffix trimmed from the end
getLabel(domain) ==
    IF DotIndex(domain) = 0
    THEN [label |-> domain, err |-> TRUE]
    ELSE [label |-> TrimSuffix(domain, PublicSuffix(domain)), err |-> FALSE]

(* ------------------------------------------------------------------ *)
(* encoding/json.Unmarshal into WebAuthnResponse                       *)
(* ------------------------------------------------------------------ *)

\* JSON values.  An object's elems are its members [key, val] in document
\* order; "malformed" stands for any byte string that is not JSON.
JString(s) == [kind |-> "string", str |-> s, elems |-> <<>>]
JNumber == [kind |-> "number", str |-> EmptyString, elems |-> <<>>]
JNull == [kind |-> "null", str |-> EmptyString, elems |-> <<>>]
JArray(es) == [kind |-> "array", str |-> EmptyString, elems |-> es]
JObject(ms) == [kind |-> "object", str |-> EmptyString, elems |-> ms]
JMalformed == [kind |-> "malformed", str |-> EmptyString, elems |-> <<>>]
Member(k, v) == [key |-> k, val |-> v]

\* WebAuthnResponse{Origins []string}: a nil slice and an empty slice differ
WebAuthnResponse(isNil, origins) == [isNil |-> isNil, Origins |-> origins]
ZeroResponse == WebAuthnResponse(TRUE, <<>>)

\* a struct field answers to its JSON name whatever the letter case of the key
KeyMatchesField(key, field) == ToLower(key) = field

\* one array element decoded into a string: a JSON string is stored, null
\* leaves the zero value "", anything else is a type error
ElementString(v) == IF v.kind = "string" THEN v.str ELSE EmptyString
ElementTypeError(v) == v.kind \notin {"string", "null"}

\* one value decoded into the Origins field: null sets the slice to nil, an
\* array makes a non-nil slice (empty for []), anything else is a type error
DecodeOrigins(v, acc) ==
    CASE v.kind = "null" ->
            [err |-> acc.err, resp |-> WebAuthnResponse(TRUE, <<>>)]
      [] v.kind = "array" ->
            [err |-> acc.err \/ \E k \in 1..Len(v.elems) : ElementTypeError(v.elems[k]),
             resp |-> WebAuthnResponse(FALSE,
                        [k \in 1..Len(v.elems) |-> ElementString(v.elems[k])])]
      [] OTHER -> [err |-> TRUE, resp |-> acc.resp]

RECURSIVE DecodeMembers(_, _)
DecodeMembers(ms, acc) ==
    IF ms = <<>> THEN acc
    ELSE DecodeMembers(Tail(ms),
            IF KeyMatchesField(Head(ms).key, "origins")
            THEN DecodeOrigins(Head(ms).val, acc)
            ELSE acc)

\* json.Unmarshal(jsonData, &webAuthnResp): a syntax error or a value of the
\* wrong type is an error; a top-level null leaves the struct untouched
Unmarshal(data) ==
    CASE data.kind = "malformed" -> [err |-> TRUE, resp |-> ZeroResponse]
      [] data.kind = "null" -> [err |-> FALSE, resp |-> ZeroResponse]
      [] data.kind = "object" ->
            DecodeMembers(data.elems, [err |-> FALSE, resp |-> ZeroResponse])
      [] OTHER -> [err |-> TRUE, resp |-> ZeroResponse]

(* ------------------------------------------------------------------ *)
(* ValidateWellKnownJSON                                               *)
(* ------------------------------------------------------------------ *)

\* the check reads an empty array as a missing one
OriginsMissingWhenEmpty(resp) == Len(resp.Origins) = 0

\* webAuthnResp.Origins == nil
OriginsMissing(resp) == resp.isNil

\* the budget test one label early
BudgetExhaustedOneEarly(seen) == Cardinality(seen) >= MaxLabels - 1

\* the budget test one label late
BudgetExhaustedOneLate(seen) == Cardinality(seen) > MaxLabels

\* len(uniqueLabels) >= MaxLabels
BudgetExhausted(seen) == Cardinality(seen) >= MaxLabels

\* originURL.Scheme == callerURL.Scheme && originURL.Host == callerURL.Host
OriginMatches(originURL, callerURL) ==
    originURL.Scheme = callerURL.Scheme /\ originURL.Host = callerURL.Host

\* what one iteration of the range loop leaves behind
Iteration(seen, hit, success, domain, label) ==
    [uniqueLabels |-> seen, hitLimits |-> hit, success |-> success,
     domain |-> domain, label |-> label]

\* an iteration in which an entry over the budget is still compared
LoopBodyComparingOverBudget(originStr, caller, seen, hit) ==
    LET originURL == ParseURL(originStr)
        lab == getLabel(originURL.Host)
        over == lab.label \notin seen /\ BudgetExhausted(seen)
    IN  IF originURL.err THEN Iteration(seen, hit, FALSE, EmptyString, EmptyString)
        ELSE IF originURL.Host = EmptyString
             THEN Iteration(seen, hit, FALSE, originURL.Host, EmptyString)
        ELSE IF lab.err
             THEN Iteration(seen, hit, FALSE, originURL.Host, lab.label)
        ELSE Iteration(IF over THEN seen ELSE seen \cup {lab.label},
                       hit \/ over,
                       OriginMatches(originURL, caller),
                       originURL.Host, lab.label)

\* an iteration that compares only the entries whose label it has just admitted
LoopBodyComparingNewLabelsOnly(originStr, caller, seen, hit) ==
    LET originURL == ParseURL(originStr)
        lab == getLabel(originURL.Host)
    IN  IF originURL.err THEN Iteration(seen, hit, FALSE, EmptyString, EmptyString)
        ELSE IF originURL.Host = EmptyString
             THEN Iteration(seen, hit, FALSE, originURL.Host, EmptyString)
        ELSE IF lab.err
             THEN Iteration(seen, hit, FALSE, originURL.Host, lab.label)
        ELSE IF lab.label \in seen
             THEN Iteration(seen, hit, FALSE, originURL.Host, lab.label)
        ELSE IF BudgetExhausted(seen)
             THEN Iteration(seen, TRUE, FALSE, originURL.Host, lab.label)
        ELSE Iteration(seen \cup {lab.label}, hit,
                       OriginMatches(originURL, caller),
                       originURL.Host, lab.label)

\* an iteration that compares an entry without label with the caller
\* instead of skipping it
LoopBodyComparingSkipped(originStr, caller, seen, hit) ==
    LET originURL == ParseURL(originStr)
        lab == getLabel(originURL.Host)
    IN  IF originURL.err THEN Iteration(seen, hit, FALSE, EmptyString, EmptyString)
        ELSE IF originURL.Host = EmptyString
             THEN Iteration(seen, hit, OriginMatches(originURL, caller),
                            originURL.Host, EmptyString)
        ELSE IF lab.err
             THEN Iteration(seen, hit, OriginMatches(originURL, caller),
                            originURL.Host, lab.label)
        ELSE IF lab.label \notin seen /\ BudgetExhausted(seen)
             THEN Iteration(seen, TRUE, FALSE, originURL.Host, lab.label)
        ELSE Iteration(seen \cup {lab.label}, hit,
                       OriginMatches(originURL, caller),
                       originURL.Host, lab.label)

\* an iteration that compares nothing once the budget has been exceeded
LoopBodyStoppingAtLimit(originStr, caller, seen, hit) ==
    LET originURL == ParseURL(originStr)
        lab == getLabel(originURL.Host)
    IN  IF originURL.err THEN Iteration(seen, hit, FALSE, EmptyString, EmptyString)
        ELSE IF originURL.Host = EmptyString
             THEN Iteration(seen, hit, FALSE, originURL.Host, EmptyString)
        ELSE IF lab.err
             THEN Iteration(seen, hit, FALSE, originURL.Host, lab.label)
        ELSE IF lab.label \notin seen /\ BudgetExhausted(seen)
             THEN Iteration(seen, TRUE, FALSE, originURL.Host, lab.label)
        ELSE Iteration(seen \cup {lab.label}, hit,
                       ~hit /\ OriginMatches(originURL, caller),
                       originURL.Host, lab.label)

\* the body of "for _, originStr := range webAuthnResp.Origins": the three
\* skips, the budget gate, the admission and the comparison with the caller
LoopBody(originStr, caller, seen, hit) ==
    LET originURL == ParseURL(originStr)
        lab == getLabel(originURL.Host)
    IN  IF originURL.err THEN Iteration(seen, hit, FALSE, EmptyString, EmptyString)
        ELSE IF originURL.Host = EmptyString
             THEN Iteration(seen, hit, FALSE, originURL.Host, EmptyString)
        ELSE IF lab.err
             THEN Iteration(seen, hit, FALSE, originURL.Host, lab.label)
        ELSE IF lab.label \notin seen /\ BudgetExhausted(seen)
             THEN Iteration(seen, TRUE, FALSE, originURL.Host, lab.label)
        ELSE Iteration(seen \cup {lab.label}, hit,
                       OriginMatches(originURL, caller),
                       originURL.Host, lab.label)

\* a caller that does not parse is scanned for like any other
CallerNeverRejected(u) == FALSE

\* callerURL, err := url.Parse(callerOrigin); err != nil
CallerRejected(u) == u.err

\* a return that forgets the flag
FinalStatusIgnoringLimits(hit) == StatusBadRelyingPartyIDNoJSONMatch

\* the return after the loop
FinalStatus(hit) ==
    IF hit THEN StatusBadRelyingPartyIDNoJSONMatchHitLimits
    ELSE StatusBadRelyingPartyIDNoJSONMatch

(* ------------------------------------------------------------------ *)
(* fmt's %d and AuthenticatorStatus.String                             *)
(* ------------------------------------------------------------------ *)

Newline == "\n"

\* one decimal digit as a character
Digit(d) ==
    CASE d = 0 -> "0" [] d = 1 -> "1" [] d = 2 -> "2" [] d = 3 -> "3"
      [] d = 4 -> "4" [] d = 5 -> "5" [] d = 6 -> "6" [] d = 7 -> "7"
      [] d = 8 -> "8" [] d = 9 -> "9"

\* fmt.Sprintf("%d", n) for n >= 0: the decimal digits of n, most significant
\* first, one token per digit
RECURSIVE Itoa(_)
Itoa(n) ==
    IF n < 10 THEN << Digit(n) >>
    ELSE Itoa(n \div 10) \o << Digit(n % 10) >>

\* a String that renders the two NO_JSON_MATCH statuses alike
StringConflatingNoMatch(s) ==
    CASE s = StatusSuccess -> << "SUCCESS" >>
      [] s = StatusBadRelyingPartyIDJSONParseError ->
            << "BAD_RELYING_PARTY_ID_JSON_PARSE_ERROR" >>
      [] OTHER -> << "BAD_RELYING_PARTY_ID_NO_JSON_MATCH" >>

\* func (s AuthenticatorStatus) String() string
String(s) ==
    CASE s = StatusSuccess -> << "SUCCESS" >>
      [] s = StatusBadRelyingPartyIDJSONParseError ->
            << "BAD_RELYING_PARTY_ID_JSON_PARSE_ERROR" >>
      [] s = StatusBadRelyingPartyIDNoJSONMatch ->
            << "BAD_RELYING_PARTY_ID_NO_JSON_MATCH" >>
      [] s = StatusBadRelyingPartyIDNoJSONMatchHitLimits ->
            << "BAD_RELYING_PARTY_ID_NO_JSON_MATCH_HIT_LIMITS" >>
      [] OTHER -> << "UNKNOWN_STATUS(" >> \o Itoa(s) \o << ")" >>

(* ------------------------------------------------------------------ *)
(* LabelCount and the census loop                                      *)
(* ------------------------------------------------------------------ *)

\* map[string]bool whose entries are all true: nil, or made with its keys
NilMap == [isNil |-> TRUE, keys |-> {}]
MakeMap(keys) == [isNil |-> FALSE, keys |-> keys]

\* type LabelCount struct.  RawJSON is <<>> for the empty string, else
\* <<the document the bytes spell>>.
LabelCount(url, labels, count, exceeds, found, msg, raw) ==
    [URL |-> url, UniqueLabels |-> labels, Count |-> count,
     ExceedsLimit |-> exceeds, LabelsFound |-> found,
     ErrorMessage |-> msg, RawJSON |-> raw]

\* an error result that carries an empty, non-nil label map
ErrorResultWithLabels(url, msg, raw) ==
    LabelCount(url, MakeMap({}), 0, FALSE, <<>>, msg, raw)

\* &LabelCount{URL: ..., ErrorMessage: ..., RawJSON: ...}: the fields that
\* are not named keep their zero value
ErrorResult(url, msg, raw) ==
    LabelCount(url, NilMap, 0, FALSE, <<>>, msg, raw)

\* a census body that counts a host without a dot under the host itself
CensusBodyCountingDotless(originStr, r) ==
    LET originURL == ParseURL(originStr)
        lab == getLabel(originURL.Host)
    IN  IF originURL.err THEN r
        ELSE IF originURL.Host = EmptyString THEN r
        ELSE IF lab.label \notin r.UniqueLabels.keys
             THEN [r EXCEPT !.UniqueLabels.keys = @ \cup {lab.label},
                            !.LabelsFound = Append(@, lab.label)]
        ELSE r

\* a census body that stops admitting labels when the budget is used up
CensusBodyGated(originStr, r) ==
    LET originURL == ParseURL(originStr)
        lab == getLabel(originURL.Host)
    IN  IF originURL.err THEN r
        ELSE IF originURL.Host = EmptyString THEN r
        ELSE IF lab.err THEN r
        ELSE IF lab.label \notin r.UniqueLabels.keys
                /\ ~BudgetExhausted(r.UniqueLabels.keys)
             THEN [r EXCEPT !.UniqueLabels.keys = @ \cup {lab.label},
                            !.LabelsFound = Append(@, lab.label)]
        ELSE r

\* a census body that lists a label every time it meets it
CensusBodyListingRepeats(originStr, r) ==
    LET originURL == ParseURL(originStr)
        lab == getLabel(originURL.Host)
    IN  IF originURL.err THEN r
        ELSE IF originURL.Host = EmptyString THEN r
        ELSE IF lab.err THEN r
        ELSE [r EXCEPT !.UniqueLabels.keys = @ \cup {lab.label},
                       !.LabelsFound = Append(@, lab.label)]

\* the body of "for _, originStr := range webAuthnResp.Origins" in
\* CountLabels and CountLabelsFromFile: the three skips, then the label is
\* recorded when the map does not hold it yet
CensusBody(originStr, r) ==
    LET originURL == ParseURL(originStr)
        lab == getLabel(originURL.Host)
    IN  IF originURL.err THEN r
        ELSE IF originURL.Host = EmptyString THEN r
        ELSE IF lab.err THEN r
        ELSE IF lab.label \notin r.UniqueLabels.keys
             THEN [r EXCEPT !.UniqueLabels.keys = @ \cup {lab.label},
                            !.LabelsFound = Append(@, lab.label)]
        ELSE r

\* the range loop, entry after entry
RECURSIVE CensusLoop(_, _)
CensusLoop(origins, r) ==
    IF origins = <<>> THEN r
    ELSE CensusLoop(Tail(origins), CensusBody(Head(origins), r))

\* a limit test that fires one label early
ExceedsLimitAtLimit(count) == count >= MaxLabels

\* result.Count > MaxLabels
ExceedsLimit(count) == count > MaxLabels

\* result.Count = len(result.UniqueLabels);
\* result.ExceedsLimit = result.Count > MaxLabels
Tally(r) ==
    [r EXCEPT !.Count = Cardinality(r.UniqueLabels.keys),
              !.ExceedsLimit = ExceedsLimit(Cardinality(r.UniqueLabels.keys))]

\* the part CountLabels and CountLabelsFromFile have in common, from
\* json.Unmarshal to the return of the result
CountDocument(url, body) ==
    LET r == Unmarshal(body)
    IN  IF r.err
        THEN ErrorResult(url, << "failed to parse JSON: ", "json error" >>, << body >>)
        ELSE Tally(CensusLoop(r.resp.Origins,
                       LabelCount(url, MakeMap({}), 0, FALSE, <<>>,
                                  EmptyString, << body >>)))

(* ------------------------------------------------------------------ *)
(* CountLabels and CountLabelsFromFile                                 *)
(* ------------------------------------------------------------------ *)

WellKnownPath == "/.well-known/webauthn"
HTTPStatusOK == 200

\* where the document comes from.  mode is "http" (CountLabels) or "file"
\* (CountLabelsFromFile); target is the domain argument or the file path;
\* failure is the I/O step that returns an error: "parse" (url.Parse of the
\* domain), "get" (client.Get), "open" (os.Open), "read" (io.ReadAll), or
\* "none"; StatusCode and ContentType are those of the HTTP response.
Source(mode, target, failure, statusCode, contentType) ==
    [mode |-> mode, target |-> target, failure |-> failure,
     StatusCode |-> statusCode, ContentType |-> contentType]

NoSource == Source("none", EmptyString, "none", 0, EmptyString)

\* strings.Contains(s, tok) for a substring that is one token
Contains(s, tok) == \E p \in 1..Len(s) : s[p] = tok

\* strings.HasPrefix(domain, "https://") || strings.HasPrefix(domain, "http://")
HasSchemePrefix(d) ==
    Len(d) >= 2 /\ d[1] \in {"https", "http"} /\ d[2] = SchemeSep

\* parsedURL.Scheme + "://" + parsedURL.Host + WellKnownPath of the domain,
\* "https://" put in front of a domain without scheme
WellKnownURL(d) ==
    LET parsedURL == ParseURL(IF HasSchemePrefix(d) THEN d
                              ELSE << "https", SchemeSep >> \o d)
    IN  << parsedURL.Scheme, SchemeSep >> \o parsedURL.Host \o << WellKnownPath >>

\* what a census returns: (*LabelCount, error)
Returns(lc, e) == [result |-> lc, err |-> e]

\* a census that looks at the content type before the status code
CountLabelsContentTypeFirst(src, body) ==
    IF src.failure = "parse" THEN Returns(<<>>, TRUE)
    ELSE IF src.failure = "get" THEN Returns(<<>>, TRUE)
    ELSE IF ~Contains(src.ContentType, "application/json")
         THEN Returns(<< ErrorResult(WellKnownURL(src.target),
                            << "unexpected content type: " >> \o src.ContentType,
                            <<>>) >>, FALSE)
    ELSE IF src.StatusCode # HTTPStatusOK
         THEN Returns(<< ErrorResult(WellKnownURL(src.target),
                            << "HTTP request failed with status code: " >>
                                \o Itoa(src.StatusCode),
                            <<>>) >>, FALSE)
    ELSE IF src.failure = "read" THEN Returns(<<>>, TRUE)
    ELSE Returns(<< CountDocument(WellKnownURL(src.target), body) >>, FALSE)

\* func CountLabels(domain string) (*LabelCount, error); body is what the
\* server sends
CountLabels(src, body) ==
    IF src.failure = "parse" THEN Returns(<<>>, TRUE)
    ELSE IF src.failure = "get" THEN Returns(<<>>, TRUE)
    ELSE IF src.StatusCode # HTTPStatusOK
         THEN Returns(<< ErrorResult(WellKnownURL(src.target),
                            << "HTTP request failed with status code: " >>
                                \o Itoa(src.StatusCode),
                            <<>>) >>, FALSE)
    ELSE IF ~Contains(src.ContentType, "application/json")
         THEN Returns(<< ErrorResult(WellKnownURL(src.target),
                            << "unexpected content type: " >> \o src.ContentType,
                            <<>>) >>, FALSE)
    ELSE IF src.failure = "read" THEN Returns(<<>>, TRUE)
    ELSE Returns(<< CountDocument(WellKnownURL(src.target), body) >>, FALSE)

\* func CountLabelsFromFile(filePath string) (*LabelCount, error); body is
\* what the file holds
CountLabelsFromFile(src, body) ==
    IF src.failure = "open" THEN Returns(<<>>, TRUE)
    ELSE IF src.failure = "read" THEN Returns(<<>>, TRUE)
    ELSE Returns(<< CountDocument(src.target, body) >>, FALSE)

\* the census a command runs: from the file when --file is given, else from
\* the domain
Census(src, body) ==
    IF src.mode = "file" THEN CountLabelsFromFile(src, body)
    ELSE CountLabels(src, body)

(* ------------------------------------------------------------------ *)
(* FormatResults                                                       *)
(* ------------------------------------------------------------------ *)

\* "- %s\n" for every label, in order
RECURSIVE Bullets(_)
Bullets(labels) ==
    IF labels = <<>> THEN <<>>
    ELSE << "- " >> \o Head(labels) \o << Newline >> \o Bullets(Tail(labels))

\* a report that prints the number of listed labels for the count
FormatResultsCountingBullets(r) ==
    IF r.ErrorMessage # EmptyString
    THEN << "Error: " >> \o r.ErrorMessage \o << Newline, "URL: " >> \o r.URL
    ELSE << "URL: " >> \o r.URL \o << Newline >>
         \o << "Unique labels found: " >> \o Itoa(Len(r.LabelsFound)) \o << Newline >>
         \o (IF r.ExceedsLimit
             THEN << "WARNING: The number of unique labels exceeds the maximum limit of " >>
                  \o Itoa(MaxLabels) \o << "!", Newline >>
             ELSE <<>>)
         \o << "Labels found:", Newline >>
         \o Bullets(r.LabelsFound)

\* func FormatResults(result *LabelCount) string
FormatResults(r) ==
    IF r.ErrorMessage # EmptyString
    THEN << "Error: " >> \o r.ErrorMessage \o << Newline, "URL: " >> \o r.URL
    ELSE << "URL: " >> \o r.URL \o << Newline >>
         \o << "Unique labels found: " >> \o Itoa(r.Count) \o << Newline >>
         \o (IF r.ExceedsLimit
             THEN << "WARNING: The number of unique labels exceeds the maximum limit of " >>
                  \o Itoa(MaxLabels) \o << "!", Newline >>
             ELSE <<>>)
         \o << "Labels found:", Newline >>
         \o Bullets(r.LabelsFound)

(* ------------------------------------------------------------------ *)
(* Inputs                                                              *)
(* ------------------------------------------------------------------ *)

Host2(a, b) == <<a, Dot, b>>
Host3(a, b, c) == <<a, Dot, b, Dot, c>>
Origin(scheme, host) == <<scheme, SchemeSep>> \o host

\* origins with pairwise different labels, as in counter_test.go
DistinctFill ==
    << Origin("https", Host2("a", "com")), Origin("https", Host2("b", "com")),
       Origin("https", Host2("c", "com")), Origin("https", Host2("d", "com")),
       Origin("https", Host2("e", "com")) >>

\* origins that differ in their public suffix only, as in counter_test.go
SharedFill ==
    << Origin("https", Host3("foo", "co", "uk")), Origin("https", Host2("foo", "de")),
       Origin("https", Host2("foo", "in")), Origin("https", Host2("foo", "net")),
       Origin("https", Host2("foo", "org")) >>

\* a list starts with no filler, with one filler less than the budget has
\* slots, or with as many
FillLengths == { 0, MaxLabels - 1, MaxLabels }

Prefixes ==
    { SubSeq(f, 1, k) : f \in {DistinctFill, SharedFill}, k \in FillLengths }

\* the entries a tail is made of: a plain origin, one with the same label and
\* another suffix, one with a label of its own, one with the host of a filler
\* and another scheme, and
\* the three kinds of entry the scan skips (unparseable, no host, no dot)
TailPool ==
    { Origin("https", Host2("foo", "com")),
      Origin("https", Host2("foo", "de")),
      Origin("https", Host2("x", "com")),
      Origin("other", Host2("a", "com")),
      Origin("https", <<"localhost">>),
      Host2("foo", "com"),
      <<SchemeSep>> \o Host2("bad", "com") }

Tails == UNION { [1..n -> TailPool] : n \in 0..MaxTail }

OriginLists == { p \o t : p \in Prefixes, t \in Tails }

OriginsDocument(list) ==
    JObject(<< Member("origins", JArray([k \in 1..Len(list) |-> JString(list[k])])) >>)

FooOrigin == Origin("https", Host2("foo", "com"))

\* documents that are not an object holding an array of strings under
\* "origins", and two that are, with an empty array and with a second key
OddDocuments ==
    { JMalformed,
      JArray(<<>>),
      JNull,
      JObject(<<>>),
      JObject(<< Member("foo", JString(<<"bar">>)) >>),
      JObject(<< Member("origins", JString(<<"bar">>)) >>),
      JObject(<< Member("origins", JNumber) >>),
      JObject(<< Member("origins", JNull) >>),
      JObject(<< Member("origins", JArray(<< JNumber >>)) >>),
      JObject(<< Member("origins", JArray(<< JString(FooOrigin), JNumber >>)) >>),
      JObject(<< Member("origins", JArray(<< JNull >>)) >>),
      JObject(<< Member("origins", JArray(<< JString(FooOrigin), JNull >>)) >>),
      JObject(<< Member("Origins", JArray(<< JString(FooOrigin) >>)) >>),
      JObject(<< Member("origins", JArray(<<>>)) >>),
      JObject(<< Member("foo", JString(<<"bar">>)),
                 Member("origins", JArray(<< JString(FooOrigin) >>)) >>) }

Documents == { OriginsDocument(list) : list \in OriginLists } \cup OddDocuments

CallerOrigins ==
    { FooOrigin,
      Origin("other", Host2("a", "com")),
      Origin("https", Host2("x", "com")),
      Origin("https", <<"localhost">>),
      Host2("foo", "com"),
      <<SchemeSep>> \o Host2("bad", "com") }

HostLabels == { "example", "test", "one", "thing", "foo", "com", "org", "co", "uk" }

RECURSIVE JoinLabels(_)
JoinLabels(labels) ==
    IF Len(labels) <= 1 THEN labels
    ELSE <<Head(labels), Dot>> \o JoinLabels(Tail(labels))

Hosts == { JoinLabels(ls) : ls \in UNION { [1..n -> HostLabels] : n \in 1..MaxHostLabels } }

\* origins that differ in the letter case of the scheme or of the host only,
\* and one that differs in more
CaseVariants ==
    { FooOrigin,
      Origin("HTTPS", Host2("foo", "com")),
      Origin("https", Host2("FOO", "com")) }

CasePool == CaseVariants \cup { Origin("https", Host2("x", "com")) }

\* lists of case variants, alone or behind fillers that leave one slot of
\* the budget
CaseLists ==
    { p \o t : p \in { <<>>, SubSeq(DistinctFill, 1, MaxLabels - 1) },
               t \in UNION { [1..n -> CasePool] : n \in 0..MaxTail } }

\* the origins of the census tests, and their documents: all four origins
\* (TestCountLabels) and the first three (TestCountLabelsFromFile)
TestOrigins ==
    << Origin("https", Host2("example", "com")),
       Origin("https", Host3("test", "example", "org")),
       Origin("https", Host3("another", "example", "net")),
       Origin("https", Host3("subdomain", "example", "com")) >>

TestDocuments == { OriginsDocument(SubSeq(TestOrigins, 1, n)) : n \in { 3, 4 } }

\* the --file argument, the default domain of the commands, a domain given
\* without scheme, and a domain url.Parse rejects (bad escape in the host)
FilePath == << "webauthn.json" >>
DefaultDomain == Origin("https", Host2("webauthn", "io"))
BareDomain == Host2("example", "com")
BadDomain == << "https", SchemeSep, "%zz" >>

StatusCodes == { HTTPStatusOK, 404 }

ContentTypes ==
    { << "application/json" >>,
      << "application/json", "; charset=utf-8" >>,
      << "text/html" >>,
      EmptyString }

\* a file that cannot be opened, one that cannot be read, one that can
FileSources ==
    { Source("file", FilePath, f, 0, EmptyString) : f \in {"open", "read", "none"} }

\* a domain that does not parse, a request that fails, and the responses: a
\* status code, a content type, and a body that can or cannot be read
HTTPSources ==
    { Source("http", BadDomain, "parse", 0, EmptyString),
      Source("http", DefaultDomain, "get", 0, EmptyString) }
    \cup { Source("http", d, f, c, t) :
              d \in {DefaultDomain, BareDomain}, f \in {"none", "read"},
              c \in StatusCodes, t \in ContentTypes }

Sources == FileSources \cup HTTPSources

\* the census of this source gets as far as json.Unmarshal
Delivers(src) ==
    /\ src.failure = "none"
    /\ src.mode = "http" =>
          /\ src.StatusCode = HTTPStatusOK
          /\ Contains(src.ContentType, "application/json")

\* labels as getLabel returns them
FormatLabels ==
    { << "example", Dot >>, << "test", Dot >>, << "a", Dot, "b", Dot >> }

FoundLists == UNION { [1..n -> FormatLabels] : n \in 0..MaxFound }

ErrorMessages == { EmptyString, << "failed to parse JSON: ", "json error" >> }

\* LabelCount values handed to FormatResults directly: Count, ExceedsLimit
\* and LabelsFound are chosen independently of one another
LabelCounts ==
    { LabelCount(FilePath, MakeMap({ f[k] : k \in DOMAIN f }), c, x, f, m, <<>>) :
        f \in FoundLists, c \in 0..MaxCount, x \in BOOLEAN, m \in ErrorMessages }

(* ------------------------------------------------------------------ *)
(* Calls that run concurrently                                         *)
(* ------------------------------------------------------------------ *)

\* the frame of one call at its entry: its arguments and its locals.  kind
\* is "validate" (ValidateWellKnownJSON) or "census" (CountLabelsFromFile
\* once the file is read)
Frame(kind, caller, data) ==
    [kind |-> kind, callerOrigin |-> caller, jsonData |-> data,
     pc |-> "unmarshal", webAuthnResp |-> ZeroResponse,
     callerURL |-> URL("", EmptyString), uniqueLabels |-> {},
     hitLimits |-> FALSE, idx |-> 0, status |-> <<>>, result |-> <<>>]

\* a scan that reads the labels admitted by every running call
VisibleLabelsOfAllCalls(cs, c) == UNION { cs[d].uniqueLabels : d \in DOMAIN cs }

\* the uniqueLabels the scan of call c reads: the map declared in its own
\* frame
VisibleLabels(cs, c) == cs[c].uniqueLabels

\* one step of ValidateWellKnownJSON in frame f, the scan reading seen:
\* json.Unmarshal with the nil check, url.Parse of the caller with the
\* declarations before the loop, one iteration, or the return after the loop
ValidateStep(f, seen) ==
    CASE f.pc = "unmarshal" ->
            LET r == Unmarshal(f.jsonData)
            IN  IF r.err \/ OriginsMissing(r.resp)
                THEN [f EXCEPT !.pc = "done",
                               !.status = << StatusBadRelyingPartyIDJSONParseError >>]
                ELSE [f EXCEPT !.pc = "parseCaller", !.webAuthnResp = r.resp]
      [] f.pc = "parseCaller" ->
            LET u == ParseURL(f.callerOrigin)
            IN  IF CallerRejected(u)
                THEN [f EXCEPT !.pc = "done",
                               !.status = << StatusBadRelyingPartyIDNoJSONMatch >>]
                ELSE [f EXCEPT !.pc = "scan", !.callerURL = u]
      [] f.pc = "scan" /\ f.idx < Len(f.webAuthnResp.Origins) ->
            LET it == LoopBody(f.webAuthnResp.Origins[f.idx + 1], f.callerURL,
                               seen, f.hitLimits)
            IN  [f EXCEPT !.idx = f.idx + 1,
                          !.uniqueLabels = it.uniqueLabels,
                          !.hitLimits = it.hitLimits,
                          !.pc = IF it.success THEN "done" ELSE "scan",
                          !.status = IF it.success THEN << StatusSuccess >> ELSE <<>>]
      [] f.pc = "scan" /\ f.idx = Len(f.webAuthnResp.Origins) ->
            [f EXCEPT !.pc = "done", !.status = << FinalStatus(f.hitLimits) >>]

\* one step of the census in frame f: json.Unmarshal and the allocation of
\* the result, one iteration, or Count and ExceedsLimit and the return
CensusStep(f) ==
    CASE f.pc = "unmarshal" ->
            LET r == Unmarshal(f.jsonData)
            IN  IF r.err
                THEN [f EXCEPT !.pc = "done",
                               !.result = << ErrorResult(FilePath,
                                    << "failed to parse JSON: ", "json error" >>,
                                    << f.jsonData >>) >>]
                ELSE [f EXCEPT !.pc = "scan", !.webAuthnResp = r.resp,
                               !.result = << LabelCount(FilePath, MakeMap({}), 0,
                                    FALSE, <<>>, EmptyString, << f.jsonData >>) >>]
      [] f.pc = "scan" /\ f.idx < Len(f.webAuthnResp.Origins) ->
            [f EXCEPT !.idx = f.idx + 1,
                      !.result = << CensusBody(f.webAuthnResp.Origins[f.idx + 1],
                                               f.result[1]) >>]
      [] f.pc = "scan" /\ f.idx = Len(f.webAuthnResp.Origins) ->
            [f EXCEPT !.pc = "done", !.result = << Tally(f.result[1]) >>]

\* a call run alone from frame f to its return
RECURSIVE RunAlone(_)
RunAlone(f) ==
    IF f.pc = "done" THEN f
    ELSE IF f.kind = "validate" THEN RunAlone(ValidateStep(f, f.uniqueLabels))
    ELSE RunAlone(CensusStep(f))

\* func ValidateWellKnownJSON(callerOrigin string, jsonData []byte) AuthenticatorStatus
ValidateWellKnownJSON(caller, data) ==
    RunAlone(Frame("validate", caller, data)).status[1]

\* the origin lists of the calls that run concurrently: three labels, three
\* other labels with the caller's among them, and one label more than the
\* budget holds with the caller's last
ConcurrentLists ==
    { SubSeq(DistinctFill, 1, 3),
      << DistinctFill[4], DistinctFill[5], FooOrigin >>,
      DistinctFill \o << FooOrigin >> }

\* the calls that can run side by side: validations of the caller
\* https://foo.com and censuses
ConcurrentCalls ==
    { Frame("validate", FooOrigin, OriginsDocument(l)) : l \in ConcurrentLists }
    \cup { Frame("census", EmptyString, OriginsDocument(l)) :
             l \in { SubSeq(DistinctFill, 1, 3), DistinctFill \o << FooOrigin >> } }

(* ------------------------------------------------------------------ *)
(* State                                                               *)
(* ------------------------------------------------------------------ *)

VARIABLES
    callerOrigin,     \* argument of ValidateWellKnownJSON
    jsonData,         \* argument of ValidateWellKnownJSON
    pc,               \* position in the function
    webAuthnResp,     \* the unmarshalled document
    callerURL,        \* the parsed caller origin
    uniqueLabels,     \* labels admitted so far
    hitLimits,        \* a new label met an exhausted budget
    idx,              \* entries of webAuthnResp.Origins the loop has taken
    domain,           \* host of the entry in hand
    etldPlus1Label,   \* label getLabel returned for it
    labelErr,         \* error getLabel returned for it
    status,           \* <<>> until the function returns, then <<its result>>
    fetch,            \* where a command takes the document from, and how that goes
    result,           \* *LabelCount of a command: <<>> for nil, else <<the struct>>
    err,              \* the census returned a Go error
    output,           \* what a command has printed on standard output
    exitCode,         \* <<>> while a command runs, then <<its exit status>>
    calls             \* the frames of the calls of ValidateWellKnownJSON that
                      \* run concurrently, one record of locals per call

vars == << callerOrigin, jsonData, pc, webAuthnResp, callerURL, uniqueLabels,
           hitLimits, idx, domain, etldPlus1Label, labelErr, status,
           fetch, result, err, output, exitCode, calls >>

\* the variables of the commands
cmdVars == << fetch, result, err, output, exitCode >>

\* no command is running: ValidateWellKnownJSON or getLabel is called directly
NoCommand ==
    /\ fetch = NoSource
    /\ result = <<>>
    /\ err = FALSE
    /\ output = EmptyString
    /\ exitCode = <<>>
    /\ calls = <<>>

Init ==
    /\ callerOrigin \in CallerOrigins
    /\ jsonData \in Documents
    /\ pc = "unmarshal"
    /\ webAuthnResp = ZeroResponse
    /\ callerURL = URL("", EmptyString)
    /\ uniqueLabels = {}
    /\ hitLimits = FALSE
    /\ idx = 0
    /\ domain = EmptyString
    /\ etldPlus1Label = EmptyString
    /\ labelErr = FALSE
    /\ status = <<>>
    /\ NoCommand

\* json.Unmarshal and the nil check on Origins
ParseJSON ==
    /\ pc = "unmarshal"
    /\ LET r == Unmarshal(jsonData)
       IN  IF r.err \/ OriginsMissing(r.resp)
           THEN /\ status' = <<StatusBadRelyingPartyIDJSONParseError>>
                /\ pc' = "done"
                /\ UNCHANGED webAuthnResp
           ELSE /\ webAuthnResp' = r.resp
                /\ pc' = "parseCaller"
                /\ UNCHANGED status
    /\ UNCHANGED << callerOrigin, jsonData, callerURL, uniqueLabels, hitLimits,
                    idx, domain, etldPlus1Label, labelErr >>
    /\ UNCHANGED cmdVars
    /\ UNCHANGED calls

\* url.Parse(callerOrigin), then the declarations before the loop
ParseCaller ==
    /\ pc = "parseCaller"
    /\ LET u == ParseURL(callerOrigin)
       IN  IF CallerRejected(u)
           THEN /\ status' = <<StatusBadRelyingPartyIDNoJSONMatch>>
                /\ pc' = "done"
                /\ UNCHANGED callerURL
           ELSE /\ callerURL' = u
                /\ pc' = "scan"
                /\ UNCHANGED status
    /\ uniqueLabels' = {}
    /\ hitLimits' = FALSE
    /\ UNCHANGED << callerOrigin, jsonData, webAuthnResp, idx, domain,
                    etldPlus1Label, labelErr >>
    /\ UNCHANGED cmdVars
    /\ UNCHANGED calls

\* an iteration that takes the same entry again
ScanOriginAgain ==
    /\ pc = "scan"
    /\ idx < Len(webAuthnResp.Origins)
    /\ \E it \in { LoopBody(webAuthnResp.Origins[idx + 1], callerURL,
                             uniqueLabels, hitLimits) } :
           /\ uniqueLabels' = it.uniqueLabels
           /\ hitLimits' = it.hitLimits
           /\ domain' = it.domain
           /\ etldPlus1Label' = it.label
           /\ labelErr' = (it.domain # EmptyString /\ getLabel(it.domain).err)
           /\ IF it.success
              THEN status' = <<StatusSuccess>> /\ pc' = "done"
              ELSE UNCHANGED << status, pc >>
    /\ UNCHANGED << callerOrigin, jsonData, webAuthnResp, callerURL, idx >>
    /\ UNCHANGED cmdVars
    /\ UNCHANGED calls

\* one iteration of the range loop
ScanOrigin ==
    /\ pc = "scan"
    /\ idx < Len(webAuthnResp.Origins)
    /\ \E it \in { LoopBody(webAuthnResp.Origins[idx + 1], callerURL,
                             uniqueLabels, hitLimits) } :
           /\ idx' = idx + 1
           /\ uniqueLabels' = it.uniqueLabels
           /\ hitLimits' = it.hitLimits
           /\ domain' = it.domain
           /\ etldPlus1Label' = it.label
           /\ labelErr' = (it.domain # EmptyString /\ getLabel(it.domain).err)
           /\ IF it.success
              THEN status' = <<StatusSuccess>> /\ pc' = "done"
              ELSE UNCHANGED << status, pc >>
    /\ UNCHANGED << callerOrigin, jsonData, webAuthnResp, callerURL >>
    /\ UNCHANGED cmdVars
    /\ UNCHANGED calls

\* the loop is over without a match
Return ==
    /\ pc = "scan"
    /\ idx = Len(webAuthnResp.Origins)
    /\ status' = <<FinalStatus(hitLimits)>>
    /\ pc' = "done"
    /\ UNCHANGED << callerOrigin, jsonData, webAuthnResp, callerURL, uniqueLabels,
                    hitLimits, idx, domain, etldPlus1Label, labelErr >>
    /\ UNCHANGED cmdVars
    /\ UNCHANGED calls

Next == ParseJSON \/ ParseCaller \/ ScanOrigin \/ Return

Spec == Init /\ [][Next]_vars

\* the calls whose document is odd or lists a filler prefix and a tail of at
\* most MaxFairTail entries
InitShort ==
    /\ Init
    /\ jsonData \in OddDocuments \cup
          { OriginsDocument(p \o t) :
              p \in Prefixes, t \in UNION { [1..n -> TailPool] : n \in 0..MaxFairTail } }

\* a call that has started runs on: nothing suspends or cancels it
SpecFair == InitShort /\ [][Next]_vars /\ WF_vars(Next)

\* calls whose caller and entries differ in letter case
InitCase ==
    /\ callerOrigin \in CaseVariants
    /\ jsonData \in { OriginsDocument(list) : list \in CaseLists }
    /\ pc = "unmarshal"
    /\ webAuthnResp = ZeroResponse
    /\ callerURL = URL("", EmptyString)
    /\ uniqueLabels = {}
    /\ hitLimits = FALSE
    /\ idx = 0
    /\ domain = EmptyString
    /\ etldPlus1Label = EmptyString
    /\ labelErr = FALSE
    /\ status = <<>>
    /\ NoCommand

SpecCase == InitCase /\ [][Next]_vars

(* ------------------------------------------------------------------ *)
(* getLabel on its own                                                 *)
(* ------------------------------------------------------------------ *)

InitLabel ==
    /\ callerOrigin = EmptyString
    /\ jsonData = JNull
    /\ pc = "getLabel"
    /\ webAuthnResp = ZeroResponse
    /\ callerURL = URL("", EmptyString)
    /\ uniqueLabels = {}
    /\ hitLimits = FALSE
    /\ idx = 0
    /\ domain \in Hosts
    /\ etldPlus1Label = EmptyString
    /\ labelErr = FALSE
    /\ status = <<>>
    /\ NoCommand

CallGetLabel ==
    /\ pc = "getLabel"
    /\ etldPlus1Label' = getLabel(domain).label
    /\ labelErr' = getLabel(domain).err
    /\ pc' = "labelled"
    /\ UNCHANGED << callerOrigin, jsonData, webAuthnResp, callerURL, uniqueLabels,
                    hitLimits, idx, domain, status >>
    /\ UNCHANGED cmdVars
    /\ UNCHANGED calls

NextLabel == CallGetLabel

SpecLabel == InitLabel /\ [][NextLabel]_vars

(* ------------------------------------------------------------------ *)
(* The count command                                                   *)
(* ------------------------------------------------------------------ *)

\* no call of ValidateWellKnownJSON has started
ValidateNotCalled ==
    /\ webAuthnResp = ZeroResponse
    /\ callerURL = URL("", EmptyString)
    /\ uniqueLabels = {}
    /\ hitLimits = FALSE
    /\ idx = 0
    /\ domain = EmptyString
    /\ etldPlus1Label = EmptyString
    /\ labelErr = FALSE
    /\ status = <<>>

\* a body that is never parsed is taken from the small set of documents
InitCount ==
    /\ fetch \in Sources
    /\ jsonData \in (IF Delivers(fetch) THEN Documents \cup TestDocuments ELSE OddDocuments)
    /\ callerOrigin = EmptyString
    /\ pc = "count"
    /\ ValidateNotCalled
    /\ result = <<>>
    /\ err = FALSE
    /\ output = EmptyString
    /\ exitCode = <<>>
    /\ calls = <<>>

\* result, err = counter.CountLabelsFromFile(file) or counter.CountLabels(domain)
CountCensus ==
    /\ pc = "count"
    /\ result' = Census(fetch, jsonData).result
    /\ err' = Census(fetch, jsonData).err
    /\ pc' = "counted"
    /\ UNCHANGED << callerOrigin, jsonData, webAuthnResp, callerURL, uniqueLabels,
                    hitLimits, idx, domain, etldPlus1Label, labelErr, status,
                    fetch, output, exitCode >>
    /\ UNCHANGED calls

\* the rest of Run: exit 1 on a Go error, else print FormatResults(result)
\* and exit 2 when result.ExceedsLimit; falling off the end of Run is exit 0
CountReport ==
    /\ pc = "counted"
    /\ IF err
       THEN /\ exitCode' = << 1 >>
            /\ UNCHANGED output
       ELSE /\ output' = FormatResults(result[1]) \o << Newline >>
            /\ exitCode' = IF result[1].ExceedsLimit THEN << 2 >> ELSE << 0 >>
    /\ pc' = "exit"
    /\ UNCHANGED << callerOrigin, jsonData, webAuthnResp, callerURL, uniqueLabels,
                    hitLimits, idx, domain, etldPlus1Label, labelErr, status,
                    fetch, result, err >>
    /\ UNCHANGED calls

NextCount == CountCensus \/ CountReport

SpecCount == InitCount /\ [][NextCount]_vars

(* ------------------------------------------------------------------ *)
(* The validate command                                                *)
(* ------------------------------------------------------------------ *)

\* the lists come from a file; the other sources deliver the small set of
\* documents
InitValidateCmd ==
    /\ fetch \in Sources
    /\ jsonData \in (IF Delivers(fetch) /\ fetch.mode = "file"
                     THEN Documents ELSE OddDocuments)
    /\ callerOrigin \in CallerOrigins \cup { EmptyString }
    /\ pc = "validate"
    /\ ValidateNotCalled
    /\ result = <<>>
    /\ err = FALSE
    /\ output = EmptyString
    /\ exitCode = <<>>
    /\ calls = <<>>

\* the --origin check, then the census
ValidateCensus ==
    /\ pc = "validate"
    /\ IF callerOrigin = EmptyString
       THEN /\ exitCode' = << 1 >>
            /\ pc' = "exit"
            /\ UNCHANGED << result, err >>
       ELSE /\ result' = Census(fetch, jsonData).result
            /\ err' = Census(fetch, jsonData).err
            /\ pc' = "census"
            /\ UNCHANGED exitCode
    /\ UNCHANGED << callerOrigin, jsonData, webAuthnResp, callerURL, uniqueLabels,
                    hitLimits, idx, domain, etldPlus1Label, labelErr, status,
                    fetch, output >>
    /\ UNCHANGED calls

\* exit 1 on a Go error, on an ErrorMessage and when json.Unmarshal of
\* result.RawJSON fails; else ValidateWellKnownJSON(origin, []byte(result.RawJSON))
\* is called
ValidateCheck ==
    /\ pc = "census"
    /\ IF \/ err
          \/ result[1].ErrorMessage # EmptyString
          \/ Unmarshal(result[1].RawJSON[1]).err
       THEN /\ exitCode' = << 1 >>
            /\ pc' = "exit"
            /\ UNCHANGED jsonData
       ELSE /\ jsonData' = result[1].RawJSON[1]
            /\ pc' = "unmarshal"
            /\ UNCHANGED exitCode
    /\ UNCHANGED << callerOrigin, webAuthnResp, callerURL, uniqueLabels,
                    hitLimits, idx, domain, etldPlus1Label, labelErr, status,
                    fetch, result, err, output >>
    /\ UNCHANGED calls

\* the two Printf of the result, then exit 3 unless the status is StatusSuccess
ValidateReport ==
    /\ pc = "done"
    /\ output' = << "Validating caller origin: " >> \o callerOrigin
                    \o << " against domain: " >> \o result[1].URL \o << Newline >>
                    \o << "Status: " >> \o String(status[1]) \o << Newline >>
    /\ exitCode' = IF status[1] # StatusSuccess THEN << 3 >> ELSE << 0 >>
    /\ pc' = "exit"
    /\ UNCHANGED << callerOrigin, jsonData, webAuthnResp, callerURL, uniqueLabels,
                    hitLimits, idx, domain, etldPlus1Label, labelErr, status,
                    fetch, result, err >>
    /\ UNCHANGED calls

NextValidateCmd ==
    \/ ValidateCensus \/ ValidateCheck
    \/ ParseJSON \/ ParseCaller \/ ScanOrigin \/ Return
    \/ ValidateReport

SpecValidateCmd == InitValidateCmd /\ [][NextValidateCmd]_vars

(* ------------------------------------------------------------------ *)
(* FormatResults on its own                                            *)
(* ------------------------------------------------------------------ *)

InitFormat ==
    /\ result \in { << lc >> : lc \in LabelCounts }
    /\ fetch = NoSource
    /\ jsonData = JNull
    /\ callerOrigin = EmptyString
    /\ pc = "format"
    /\ ValidateNotCalled
    /\ err = FALSE
    /\ output = EmptyString
    /\ exitCode = <<>>
    /\ calls = <<>>

CallFormatResults ==
    /\ pc = "format"
    /\ output' = FormatResults(result[1])
    /\ pc' = "formatted"
    /\ UNCHANGED << callerOrigin, jsonData, webAuthnResp, callerURL, uniqueLabels,
                    hitLimits, idx, domain, etldPlus1Label, labelErr, status,
                    fetch, result, err, exitCode >>
    /\ UNCHANGED calls

NextFormat == CallFormatResults

SpecFormat == InitFormat /\ [][NextFormat]_vars

(* ------------------------------------------------------------------ *)
(* Concurrent calls                                                    *)
(* ------------------------------------------------------------------ *)

\* MaxCalls goroutines, each about to make one call
InitConcurrent ==
    /\ calls \in [1..MaxCalls -> ConcurrentCalls]
    /\ callerOrigin = EmptyString
    /\ jsonData = JNull
    /\ pc = "concurrent"
    /\ ValidateNotCalled
    /\ fetch = NoSource
    /\ result = <<>>
    /\ err = FALSE
    /\ output = EmptyString
    /\ exitCode = <<>>

\* the goroutine of call c takes its next step
CallStep(c) ==
    /\ calls[c].pc # "done"
    /\ calls' = [calls EXCEPT ![c] =
                    IF calls[c].kind = "validate"
                    THEN ValidateStep(calls[c], VisibleLabels(calls, c))
                    ELSE CensusStep(calls[c])]
    /\ UNCHANGED << callerOrigin, jsonData, pc, webAuthnResp, callerURL,
                    uniqueLabels, hitLimits, idx, domain, etldPlus1Label,
                    labelErr, status >>
    /\ UNCHANGED cmdVars

NextConcurrent == \E c \in 1..MaxCalls : CallStep(c)

SpecConcurrent == InitConcurrent /\ [][NextConcurrent]_vars

(* ------------------------------------------------------------------ *)
(* The document and the scan, described without running the scan       *)
(* ------------------------------------------------------------------ *)

Range(f) == { f[k] : k \in DOMAIN f }

\* the members of the document stored under the exact key "origins"
OriginsMembers(doc) ==
    IF doc.kind = "object"
    THEN { k \in 1..Len(doc.elems) : doc.elems[k].key = "origins" }
    ELSE {}

\* the document is an object whose "origins" is an array of strings
IsOriginList(doc) ==
    /\ OriginsMembers(doc) # {}
    /\ \A k \in OriginsMembers(doc) :
          /\ doc.elems[k].val.kind = "array"
          /\ \A e \in Range(doc.elems[k].val.elems) : e.kind = "string"

\* the array stored under "origins", and its strings in order
OriginsValue == jsonData.elems[CHOOSE k \in OriginsMembers(jsonData) : TRUE].val
Entry(k) == OriginsValue.elems[k].str
Listed == [k \in 1..Len(OriginsValue.elems) |-> Entry(k)]
ListLen == Len(OriginsValue.elems)
Positions == 1..ListLen

Caller == ParseURL(callerOrigin)
WellFormedCall == IsOriginList(jsonData) /\ ~Caller.err

EntryURL(k) == ParseURL(Entry(k))
HasDot(host) == \E p \in 1..Len(host) : host[p] = Dot
Skipped(k) ==
    LET u == EntryURL(k)
    IN  u.err \/ u.Host = EmptyString \/ ~HasDot(u.Host)
EntryLabel(k) == getLabel(EntryURL(k).Host).label

\* the labels of the entries 1..n that are not skipped, each once, in the
\* order of their first occurrence
RECURSIVE DistinctLabels(_)
DistinctLabels(n) ==
    IF n = 0 THEN <<>>
    ELSE LET before == DistinctLabels(n - 1)
         IN  IF Skipped(n) \/ EntryLabel(n) \in Range(before)
             THEN before
             ELSE Append(before, EntryLabel(n))

\* the labels holding a slot of the budget when entry k comes up: the first
\* MaxLabels distinct labels before it
AdmittedBefore(k) ==
    LET d == DistinctLabels(k - 1)
    IN  Range(SubSeq(d, 1, Min(MaxLabels, Len(d))))

\* entry k carries a label that is new while the budget is used up
OverBudgetAt(k) ==
    /\ ~Skipped(k)
    /\ EntryLabel(k) \notin AdmittedBefore(k)
    /\ Cardinality(AdmittedBefore(k)) >= MaxLabels

\* entry k has the caller's scheme and host
MatchesCaller(k) ==
    /\ ~Skipped(k)
    /\ EntryURL(k).Scheme = Caller.Scheme
    /\ EntryURL(k).Host = Caller.Host

Returned(s) == pc = "done" /\ status = <<s>>

(* ------------------------------------------------------------------ *)
(* C1                                                                  *)
(* ------------------------------------------------------------------ *)

\* C1: for every caller, the call returns JSON_PARSE_ERROR exactly for the
\* documents that are not an object holding an array of strings under
\* "origins" (malformed, not an object, no origins key, origins not an
\* array of strings).
C1_ParseErrorIffNotOriginList ==
    pc = "done" =>
        (status = <<StatusBadRelyingPartyIDJSONParseError>> <=> ~IsOriginList(jsonData))

(* ------------------------------------------------------------------ *)
(* C2                                                                  *)
(* ------------------------------------------------------------------ *)

\* the document check of the call fails: json.Unmarshal reports an error or
\* leaves Origins nil
DocumentCheckFails ==
    Unmarshal(jsonData).err \/ Unmarshal(jsonData).resp.isNil

\* C2: with a caller that does not parse, a document that parses to an
\* origin list returns NO_JSON_MATCH without any entry scanned (never
\* JSON_PARSE_ERROR, never HIT_LIMITS, however many labels are listed), and a
\* document that fails the document check returns JSON_PARSE_ERROR: the
\* document check comes first.
C2_CallerParseFailure ==
    (pc = "done" /\ Caller.err) =>
        /\ IsOriginList(jsonData) => ~DocumentCheckFails
        /\ IF DocumentCheckFails
           THEN status = <<StatusBadRelyingPartyIDJSONParseError>>
           ELSE /\ status = <<StatusBadRelyingPartyIDNoJSONMatch>>
                /\ idx = 0 /\ uniqueLabels = {} /\ ~hitLimits

\* an unparseable caller against a list of more labels than the budget holds
C2_Witness ==
    /\ Returned(StatusBadRelyingPartyIDNoJSONMatch)
    /\ Caller.err /\ IsOriginList(jsonData)
    /\ Len(DistinctLabels(ListLen)) > MaxLabels
    /\ idx = 0

(* ------------------------------------------------------------------ *)
(* C3                                                                  *)
(* ------------------------------------------------------------------ *)

WithinBudgetAndListed ==
    /\ IsOriginList(jsonData)
    /\ Len(DistinctLabels(ListLen)) <= MaxLabels
    /\ callerOrigin \in Range(Listed)

\* C3 as stated: a well-formed list of at most MaxLabels distinct labels that
\* holds the caller origin verbatim returns SUCCESS, whatever the caller is.
C3_ListedCallerSucceeds ==
    (pc = "done" /\ WithinBudgetAndListed) => status = <<StatusSuccess>>

\* C3 amended: the same for a caller that parses to a host holding a dot,
\* that is, for a caller whose entry the scan does not skip.
C3_ListedDottedCallerSucceeds ==
    (pc = "done" /\ WithinBudgetAndListed /\ ~Caller.err /\ HasDot(Caller.Host))
        => status = <<StatusSuccess>>

\* the caller is the last entry of a list that uses the whole budget
C3_Witness ==
    /\ Returned(StatusSuccess)
    /\ WithinBudgetAndListed /\ ~Caller.err /\ HasDot(Caller.Host)
    /\ Len(DistinctLabels(ListLen)) = MaxLabels
    /\ \A k \in Positions : Entry(k) = callerOrigin => k = ListLen

(* ------------------------------------------------------------------ *)
(* C4                                                                  *)
(* ------------------------------------------------------------------ *)

OnlyOverBudgetMatches ==
    /\ WellFormedCall
    /\ \E k \in Positions : MatchesCaller(k)
    /\ \A k \in Positions : MatchesCaller(k) => OverBudgetAt(k)

\* C4: when every entry equal to the caller carries a label that is new
\* while MaxLabels labels are admitted, the call returns
\* NO_JSON_MATCH_HIT_LIMITS, not SUCCESS.
C4_OverBudgetMatchHitsLimits ==
    (pc = "done" /\ OnlyOverBudgetMatches)
        => status = <<StatusBadRelyingPartyIDNoJSONMatchHitLimits>>

C4_Witness ==
    /\ Returned(StatusBadRelyingPartyIDNoJSONMatchHitLimits)
    /\ OnlyOverBudgetMatches
    /\ MatchesCaller(ListLen)

(* ------------------------------------------------------------------ *)
(* C5                                                                  *)
(* ------------------------------------------------------------------ *)

\* the entry the next iteration takes is over budget
NextEntryOverBudget ==
    /\ pc = "scan" /\ idx < Len(webAuthnResp.Origins)
    /\ LET u == ParseURL(webAuthnResp.Origins[idx + 1])
       IN  /\ ~u.err /\ u.Host # EmptyString /\ ~getLabel(u.Host).err
           /\ getLabel(u.Host).label \notin uniqueLabels
           /\ Cardinality(uniqueLabels) >= MaxLabels

NextEntryMatches ==
    OriginMatches(ParseURL(webAuthnResp.Origins[idx + 1]), callerURL)

\* C5 as stated: an entry over budget is not added and sets hitLimits, and is
\* still compared: when it equals the caller the call returns SUCCESS at once.
C5_OverBudgetEntryStillCompared ==
    [][NextEntryOverBudget =>
          /\ uniqueLabels' = uniqueLabels
          /\ hitLimits'
          /\ (NextEntryMatches => pc' = "done" /\ status' = <<StatusSuccess>>)]_vars

\* C5 amended: an entry over budget is not added, sets hitLimits and is not
\* compared: the scan goes on to the next entry without returning, also when
\* the entry equals the caller.
C5_OverBudgetEntryNotCompared ==
    [][NextEntryOverBudget =>
          /\ uniqueLabels' = uniqueLabels
          /\ hitLimits'
          /\ idx' = idx + 1
          /\ pc' = "scan" /\ status' = <<>>]_vars

\* the scan has just passed an over-budget entry equal to the caller
C5_Witness ==
    /\ pc = "scan" /\ WellFormedCall /\ idx >= 1 /\ hitLimits
    /\ OverBudgetAt(idx) /\ MatchesCaller(idx)
    /\ Cardinality(uniqueLabels) = MaxLabels
    /\ EntryLabel(idx) \notin uniqueLabels

(* ------------------------------------------------------------------ *)
(* C6                                                                  *)
(* ------------------------------------------------------------------ *)

AdmittedMatches == { k \in Positions : MatchesCaller(k) /\ ~OverBudgetAt(k) }
FirstAdmittedMatch == CHOOSE k \in AdmittedMatches : \A j \in AdmittedMatches : k <= j

\* C6: the call returns SUCCESS at the first entry that is not skipped, whose
\* label is admitted and that equals the caller, and takes no entry after it.
C6_SuccessAtFirstAdmittedMatch ==
    (pc = "done" /\ WellFormedCall /\ AdmittedMatches # {})
        => status = <<StatusSuccess>> /\ idx = FirstAdmittedMatch

\* a match on the last label of the budget, followed by an entry that would
\* have been over budget
C6_Witness ==
    /\ Returned(StatusSuccess) /\ WellFormedCall /\ AdmittedMatches # {}
    /\ idx = FirstAdmittedMatch /\ idx < ListLen
    /\ Len(DistinctLabels(idx)) = MaxLabels
    /\ \E k \in (idx + 1)..ListLen : OverBudgetAt(k)

(* ------------------------------------------------------------------ *)
(* C7                                                                  *)
(* ------------------------------------------------------------------ *)

\* foo.<suffix> for every public suffix of the list
FooHosts == { <<"foo", Dot>> \o r : r \in PublicSuffixRules }

FooHostsShareLabel ==
    \A h \in FooHosts : getLabel(h) = getLabel(Host2("foo", "com"))

AllEntriesFoo ==
    /\ IsOriginList(jsonData)
    /\ \A k \in Positions : ~EntryURL(k).err /\ EntryURL(k).Host \in FooHosts

\* C7: hosts that differ in their public suffix only yield one label and
\* take one slot of the budget: a list of such origins never sets hitLimits,
\* and a caller equal to one of them gets SUCCESS.
C7_SharedLabelOneSlot ==
    /\ FooHostsShareLabel
    /\ (pc = "done" /\ AllEntriesFoo) =>
          /\ Cardinality(uniqueLabels) <= 1
          /\ ~hitLimits
          /\ callerOrigin \in Range(Listed) => status = <<StatusSuccess>>

\* more such origins than the budget has slots, the caller being the last
C7_Witness ==
    /\ Returned(StatusSuccess) /\ AllEntriesFoo
    /\ Cardinality({ EntryURL(k).Host : k \in Positions }) > MaxLabels
    /\ idx = ListLen /\ Entry(idx) = callerOrigin
    /\ Cardinality(uniqueLabels) = 1

(* ------------------------------------------------------------------ *)
(* C8                                                                  *)
(* ------------------------------------------------------------------ *)

SomeEntryOverBudget == \E k \in Positions : OverBudgetAt(k)

\* C8: a scan of a well-formed list that ends without SUCCESS returns
\* NO_JSON_MATCH_HIT_LIMITS when some entry that is not skipped carried a
\* label unseen while MaxLabels labels were admitted, and NO_JSON_MATCH otherwise.
C8_HitLimitsIffOverBudget ==
    (pc = "done" /\ WellFormedCall /\ status # <<StatusSuccess>>) =>
        LET over == SomeEntryOverBudget
        IN  /\ hitLimits <=> over
            /\ status = IF over
                        THEN <<StatusBadRelyingPartyIDNoJSONMatchHitLimits>>
                        ELSE <<StatusBadRelyingPartyIDNoJSONMatch>>

\* no entry equals the caller and one is over budget
C8_Witness ==
    /\ Returned(StatusBadRelyingPartyIDNoJSONMatchHitLimits) /\ WellFormedCall
    /\ \A k \in Positions : ~MatchesCaller(k)
    /\ SomeEntryOverBudget

(* ------------------------------------------------------------------ *)
(* C9                                                                  *)
(* ------------------------------------------------------------------ *)

EmptyOriginsDocument == JObject(<< Member("origins", JArray(<<>>)) >>)

\* C9: {"origins": []} is no parse error: the call returns NO_JSON_MATCH for
\* every caller.
C9_EmptyOriginsNoMatch ==
    (pc = "done" /\ jsonData = EmptyOriginsDocument)
        => status = <<StatusBadRelyingPartyIDNoJSONMatch>>

C9_Witness ==
    /\ Returned(StatusBadRelyingPartyIDNoJSONMatch)
    /\ jsonData = EmptyOriginsDocument
    /\ ~Caller.err /\ HasDot(Caller.Host)
    /\ ~webAuthnResp.isNil /\ idx = 0

(* ------------------------------------------------------------------ *)
(* C10                                                                 *)
(* ------------------------------------------------------------------ *)

\* the host up to, and without, the dot in front of its public suffix
BeforeSuffix(host) ==
    SubSeq(host, 1, Len(host) - Len(PublicSuffix(host)) - 1)

\* C10: for a host with a dot, getLabel returns the part of the host before
\* its public suffix without the separating dot (example.com -> example,
\* foo.co.uk -> foo); the label never ends with a dot.
C10_LabelWithoutDot ==
    (pc = "labelled" /\ HasDot(domain)) =>
        /\ ~labelErr
        /\ etldPlus1Label = BeforeSuffix(domain)
        /\ (etldPlus1Label # EmptyString => etldPlus1Label[Len(etldPlus1Label)] # Dot)

(* ------------------------------------------------------------------ *)
(* The census, described from the decoded document                     *)
(* ------------------------------------------------------------------ *)

\* the strings json.Unmarshal leaves in Origins
DecodedEntries == Unmarshal(jsonData).resp.Origins

\* an entry that does not parse as a URL, has no host, or has a host
\* without a dot
SkippedEntry(s) ==
    LET u == ParseURL(s)
    IN  u.err \/ u.Host = EmptyString \/ ~HasDot(u.Host)

LabelOfEntry(s) == getLabel(ParseURL(s).Host).label

\* the labels of the decoded entries that are not skipped
CountedLabels ==
    { LabelOfEntry(DecodedEntries[k]) :
        k \in { j \in 1..Len(DecodedEntries) : ~SkippedEntry(DecodedEntries[j]) } }

\* the census has returned label data: no Go error and no ErrorMessage
CensusSucceeded ==
    /\ result # <<>>
    /\ ~err
    /\ result[1].ErrorMessage = EmptyString

(* ------------------------------------------------------------------ *)
(* C11                                                                 *)
(* ------------------------------------------------------------------ *)

\* the entry the scan of ValidateWellKnownJSON takes next is one it skips
NextEntrySkipped ==
    /\ pc = "scan" /\ idx < Len(webAuthnResp.Origins)
    /\ SkippedEntry(webAuthnResp.Origins[idx + 1])

\* the census of a document that was read and decoded counts the labels of
\* the entries that are not skipped, and no other
CensusIgnoresSkipped ==
    (result # <<>> /\ Delivers(fetch) /\ ~Unmarshal(jsonData).err) =>
        /\ CensusSucceeded
        /\ result[1].UniqueLabels.keys = CountedLabels
        /\ \A k \in 1..Len(result[1].LabelsFound) :
              result[1].LabelsFound[k] \in CountedLabels

\* C11: an entry of the origin list that does not parse as a URL, has an
\* empty host or a host without a dot is skipped by the scan and by the
\* census: the scan step over it changes neither the admitted labels nor
\* hitLimits, does not return (so the entry is never compared with the
\* caller) and goes on to the next entry; the census records no label for it
\* and reports no error.
C11_SkippedEntryLeavesNoTrace ==
    [][ /\ NextEntrySkipped =>
              /\ uniqueLabels' = uniqueLabels
              /\ hitLimits' = hitLimits
              /\ idx' = idx + 1
              /\ pc' = "scan" /\ status' = <<>>
        /\ pc = "census" => CensusIgnoresSkipped ]_vars

\* the caller is a listed origin without a dot in its host, next to an entry
\* that does not parse: the census counted nothing, the scan admitted
\* nothing and found no match
C11_Witness ==
    /\ pc = "exit" /\ exitCode = << 3 >>
    /\ status = << StatusBadRelyingPartyIDNoJSONMatch >>
    /\ callerOrigin = Origin("https", << "localhost" >>)
    /\ \E k \in 1..Len(webAuthnResp.Origins) : webAuthnResp.Origins[k] = callerOrigin
    /\ \E k \in 1..Len(webAuthnResp.Origins) : ParseURL(webAuthnResp.Origins[k]).err
    /\ CensusSucceeded /\ result[1].Count = 0
    /\ uniqueLabels = {} /\ ~hitLimits

(* ------------------------------------------------------------------ *)
(* C12                                                                 *)
(* ------------------------------------------------------------------ *)

\* C12: the census never gates admission: for every origin list that is
\* read, it records every distinct label of the entries that are not
\* skipped, Count is the number of distinct labels, and ExceedsLimit holds
\* exactly when Count is greater than MaxLabels.
C12_CensusNeverGates ==
    (pc \in { "counted", "exit" } /\ Delivers(fetch) /\ IsOriginList(jsonData)) =>
        LET distinct == DistinctLabels(ListLen)
        IN  /\ CensusSucceeded
            /\ result[1].LabelsFound = distinct
            /\ result[1].UniqueLabels.keys = Range(distinct)
            /\ result[1].Count = Len(distinct)
            /\ result[1].ExceedsLimit <=> (result[1].Count > MaxLabels)

\* a list of one label more than the limit: all of them are reported
C12_Witness ==
    /\ pc = "counted" /\ Delivers(fetch) /\ IsOriginList(jsonData)
    /\ CensusSucceeded
    /\ result[1].Count = MaxLabels + 1
    /\ Len(result[1].LabelsFound) = MaxLabels + 1
    /\ result[1].ExceedsLimit

(* ------------------------------------------------------------------ *)
(* C13                                                                 *)
(* ------------------------------------------------------------------ *)

\* for every decoded entry, <<>> when it is skipped and <<its label>> otherwise
EntryLabels ==
    LET entries == DecodedEntries
    IN  [k \in 1..Len(entries) |->
            IF SkippedEntry(entries[k]) THEN <<>> ELSE << LabelOfEntry(entries[k]) >>]

\* the first position of labs that carries label l
FirstWithLabel(labs, l) ==
    CHOOSE k \in 1..Len(labs) : labs[k] = << l >> /\ \A j \in 1..(k - 1) : labs[j] # << l >>

\* C13: in every census result without error, LabelsFound lists each
\* distinct label exactly once, in the order of first occurrence in the
\* origins array; Count is the length of LabelsFound and the number of keys
\* of UniqueLabels; the keys of UniqueLabels are the elements of LabelsFound.
C13_CensusResultConsistent ==
    (pc \in { "counted", "exit" } /\ CensusSucceeded) =>
        LET found == result[1].LabelsFound
            keys == result[1].UniqueLabels.keys
            labs == EntryLabels
        IN  /\ Range(found) = { labs[k][1] : k \in { j \in 1..Len(labs) : labs[j] # <<>> } }
            /\ \A i, j \in 1..Len(found) : found[i] = found[j] => i = j
            /\ \A i \in 1..(Len(found) - 1) :
                  FirstWithLabel(labs, found[i]) < FirstWithLabel(labs, found[i + 1])
            /\ result[1].Count = Len(found)
            /\ result[1].Count = Cardinality(keys)
            /\ keys = Range(found)

\* several labels, one of them carried by more than one entry, and the
\* repeated label is not the last to appear
C13_Witness ==
    /\ pc = "counted" /\ CensusSucceeded
    /\ Len(result[1].LabelsFound) >= 2
    /\ \E k \in 1..Len(EntryLabels) :
          /\ EntryLabels[k] = << result[1].LabelsFound[1] >>
          /\ k > FirstWithLabel(EntryLabels, result[1].LabelsFound[2])

(* ------------------------------------------------------------------ *)
(* C14                                                                 *)
(* ------------------------------------------------------------------ *)

\* the label fields of r hold their zero values
LabelFieldsUnpopulated(r) ==
    /\ r.UniqueLabels.isNil
    /\ r.Count = 0
    /\ ~r.ExceedsLimit
    /\ r.LabelsFound = <<>>

\* C14: a census of bytes that json.Unmarshal rejects returns a result and
\* no Go error, with a non-empty ErrorMessage and unpopulated label fields
\* (UniqueLabels nil, Count 0, ExceedsLimit false, LabelsFound empty); and in
\* every returned LabelCount a non-empty ErrorMessage and populated label
\* fields exclude one another.
C14_ErrorExcludesLabels ==
    pc \in { "counted", "exit" } =>
        /\ (Delivers(fetch) /\ Unmarshal(jsonData).err) =>
              /\ result # <<>> /\ ~err
              /\ result[1].ErrorMessage # EmptyString
              /\ LabelFieldsUnpopulated(result[1])
        /\ result # <<>> =>
              /\ result[1].ErrorMessage # EmptyString => LabelFieldsUnpopulated(result[1])
              /\ ~LabelFieldsUnpopulated(result[1]) => result[1].ErrorMessage = EmptyString

\* a file that holds no JSON
C14_Witness ==
    /\ pc = "counted" /\ fetch.mode = "file" /\ Delivers(fetch)
    /\ jsonData = JMalformed
    /\ result # <<>> /\ ~err
    /\ result[1].ErrorMessage # EmptyString
    /\ result[1].RawJSON = << JMalformed >>
    /\ LabelFieldsUnpopulated(result[1])

(* ------------------------------------------------------------------ *)
(* C15                                                                 *)
(* ------------------------------------------------------------------ *)

\* C15: validate and census agree on what a parse error is: when
\* ValidateWellKnownJSON returns JSON_PARSE_ERROR for a document (an object
\* without origins key and an origins of null included), the census of the
\* same bytes has a non-empty ErrorMessage, and when the census returns
\* label data, validate does not return JSON_PARSE_ERROR.
C15_ParseErrorsAgree ==
    (pc = "done" /\ result # <<>>) =>
        /\ status = << StatusBadRelyingPartyIDJSONParseError >>
              => result[1].ErrorMessage # EmptyString
        /\ CensusSucceeded
              => status # << StatusBadRelyingPartyIDJSONParseError >>

(* ------------------------------------------------------------------ *)
(* C16                                                                 *)
(* ------------------------------------------------------------------ *)

\* fetching the document fails, or json.Unmarshal rejects it
FetchOrParseFails == ~Delivers(fetch) \/ Unmarshal(jsonData).err

\* C16: the count command exits with 1 whenever fetching or parsing the
\* document fails (transport error, unreadable file, HTTP status other than
\* 200, content type that is not JSON, malformed JSON), with 2 when the
\* census exceeds the limit, and with 0 only when the document was fetched
\* and parsed and is within the limit.
C16_CountExitStatus ==
    pc = "exit" =>
        /\ FetchOrParseFails => exitCode = << 1 >>
        /\ (~FetchOrParseFails /\ result[1].ExceedsLimit) => exitCode = << 2 >>
        /\ exitCode = << 0 >> => (~FetchOrParseFails /\ ~result[1].ExceedsLimit)

(* ------------------------------------------------------------------ *)
(* C17                                                                 *)
(* ------------------------------------------------------------------ *)

\* C17: the validate command, given an origin, exits with 1 when fetching or
\* parsing fails (Go error, non-empty ErrorMessage, or a document that is
\* not an origin list), with 3 exactly when the document is an origin list
\* and the status is NO_JSON_MATCH or NO_JSON_MATCH_HIT_LIMITS, and with 0
\* exactly when the status is SUCCESS; ValidateWellKnownJSON is called only
\* after the census returned without error.
C17_ValidateExitStatus ==
    /\ status # <<>> => CensusSucceeded
    /\ (pc = "exit" /\ callerOrigin # EmptyString) =>
          /\ (~CensusSucceeded \/ ~IsOriginList(jsonData)) => exitCode = << 1 >>
          /\ exitCode = << 3 >> <=>
                /\ CensusSucceeded /\ IsOriginList(jsonData)
                /\ status \in { << StatusBadRelyingPartyIDNoJSONMatch >>,
                                << StatusBadRelyingPartyIDNoJSONMatchHitLimits >> }
          /\ exitCode = << 0 >> <=> status = << StatusSuccess >>

(* ------------------------------------------------------------------ *)
(* C18                                                                 *)
(* ------------------------------------------------------------------ *)

Statuses ==
    { StatusSuccess, StatusBadRelyingPartyIDJSONParseError,
      StatusBadRelyingPartyIDNoJSONMatch,
      StatusBadRelyingPartyIDNoJSONMatchHitLimits }

\* the rendering the claim gives for every status
TokenOf(s) ==
    CASE s = StatusSuccess -> "SUCCESS"
      [] s = StatusBadRelyingPartyIDJSONParseError ->
            "BAD_RELYING_PARTY_ID_JSON_PARSE_ERROR"
      [] s = StatusBadRelyingPartyIDNoJSONMatch ->
            "BAD_RELYING_PARTY_ID_NO_JSON_MATCH"
      [] s = StatusBadRelyingPartyIDNoJSONMatchHitLimits ->
            "BAD_RELYING_PARTY_ID_NO_JSON_MATCH_HIT_LIMITS"

\* what the command printed after "Status: ", up to the end of the line
PrintedStatus ==
    LET p == CHOOSE q \in 1..Len(output) : output[q] = "Status: "
    IN  SubSeq(output, p + 1, Len(output) - 1)

\* C18: ValidateWellKnownJSON returns one of the four AuthenticatorStatus
\* values; String maps the four one-to-one to SUCCESS,
\* BAD_RELYING_PARTY_ID_JSON_PARSE_ERROR, BAD_RELYING_PARTY_ID_NO_JSON_MATCH
\* and BAD_RELYING_PARTY_ID_NO_JSON_MATCH_HIT_LIMITS; a status returned by
\* validate is never rendered as UNKNOWN_STATUS.
C18_FourStatusesFourTokens ==
    /\ \A s, t \in Statuses : String(s) = String(t) => s = t
    /\ \A s \in Statuses : String(s) = << TokenOf(s) >>
    /\ status # <<>> => status[1] \in Statuses
    /\ (pc = "exit" /\ status # <<>>) =>
          /\ PrintedStatus = << TokenOf(status[1]) >>
          /\ PrintedStatus[1] # "UNKNOWN_STATUS("

\* the command has printed the status of a scan that hit the limit
C18_Witness ==
    /\ pc = "exit"
    /\ status = << StatusBadRelyingPartyIDNoJSONMatchHitLimits >>
    /\ PrintedStatus = << "BAD_RELYING_PARTY_ID_NO_JSON_MATCH_HIT_LIMITS" >>
    /\ exitCode = << 3 >>

(* ------------------------------------------------------------------ *)
(* Reading the report back                                             *)
(* ------------------------------------------------------------------ *)

\* the lines of s: the pieces between line breaks, a last piece without line
\* break included
RECURSIVE Lines(_)
Lines(s) ==
    IF s = <<>> THEN <<>>
    ELSE IF \E p \in 1..Len(s) : s[p] = Newline
         THEN LET p == CHOOSE q \in 1..Len(s) :
                          s[q] = Newline /\ \A j \in 1..(q - 1) : s[j] # Newline
              IN  << SubSeq(s, 1, p - 1) >> \o Lines(SubSeq(s, p + 1, Len(s)))
         ELSE << s >>

DigitValue(c) == CHOOSE d \in 0..9 : Digit(d) = c

\* the number a sequence of digits spells
RECURSIVE Atoi(_)
Atoi(digits) ==
    IF Len(digits) = 1 THEN DigitValue(digits[1])
    ELSE 10 * Atoi(SubSeq(digits, 1, Len(digits) - 1)) + DigitValue(digits[Len(digits)])

StartsWith(line, tok) == line # <<>> /\ line[1] = tok

IsCountLine(line) == StartsWith(line, "Unique labels found: ")
IsBulletLine(line) == StartsWith(line, "- ")
IsWarningLine(line) ==
    StartsWith(line, "WARNING: The number of unique labels exceeds the maximum limit of ")

(* ------------------------------------------------------------------ *)
(* C19                                                                 *)
(* ------------------------------------------------------------------ *)

\* C19: for every LabelCount with an empty ErrorMessage, the output of
\* FormatResults has one 'Unique labels found:' line, the number on it is
\* Count, and its bullet lines are the elements of LabelsFound, one line
\* each, in order.
C19_FormatRoundTrip ==
    (pc = "formatted" /\ result[1].ErrorMessage = EmptyString) =>
        LET lines == Lines(output)
            counts == SelectSeq(lines, IsCountLine)
            bullets == SelectSeq(lines, IsBulletLine)
        IN  /\ Len(counts) = 1
            /\ Atoi(Tail(counts[1])) = result[1].Count
            /\ Len(bullets) = Len(result[1].LabelsFound)
            /\ \A k \in 1..Len(bullets) : Tail(bullets[k]) = result[1].LabelsFound[k]

\* a count of two digits that differs from the number of labels listed, and
\* two different labels
C19_Witness ==
    /\ pc = "formatted" /\ result[1].ErrorMessage = EmptyString
    /\ result[1].Count >= 10
    /\ Len(result[1].LabelsFound) = 2
    /\ result[1].LabelsFound[1] # result[1].LabelsFound[2]
    /\ Len(SelectSeq(Lines(output), IsBulletLine)) = 2

(* ------------------------------------------------------------------ *)
(* C20                                                                 *)
(* ------------------------------------------------------------------ *)

\* C20: for every LabelCount the census returns, the report has the WARNING
\* line exactly when Count is greater than MaxLabels; when ErrorMessage is
\* not empty the report is the error line and the line of the target, with
\* no count, no warning and no label list.
C20_WarningIffExceeds ==
    (pc = "exit" /\ result # <<>>) =>
        LET lines == Lines(output)
        IN  IF result[1].ErrorMessage = EmptyString
            THEN (\E k \in 1..Len(lines) : IsWarningLine(lines[k]))
                    <=> (result[1].Count > MaxLabels)
            ELSE lines = << << "Error: " >> \o result[1].ErrorMessage,
                            << "URL: " >> \o result[1].URL >>

\* one label more than the limit: the report warns and lists them all
C20_Witness ==
    /\ pc = "exit" /\ result # <<>>
    /\ result[1].ErrorMessage = EmptyString
    /\ result[1].Count = MaxLabels + 1
    /\ \E k \in 1..Len(Lines(output)) : IsWarningLine(Lines(output)[k])
    /\ Len(SelectSeq(Lines(output), IsBulletLine)) = MaxLabels + 1

(* ------------------------------------------------------------------ *)
(* C21                                                                 *)
(* ------------------------------------------------------------------ *)

\* C21: concurrent calls do not interfere: in every interleaving of the
\* steps of the calls, a call that has returned holds the result (status,
\* or census result) and the locals it has when it runs alone on its
\* arguments.
C21_ConcurrentCallsIndependent ==
    \A c \in DOMAIN calls :
        calls[c].pc = "done" =>
            calls[c] = RunAlone(Frame(calls[c].kind, calls[c].callerOrigin,
                                      calls[c].jsonData))

\* two validations have returned side by side, one with SUCCESS and its
\* three labels, one that hit the limit with its five
C21_Witness ==
    /\ DOMAIN calls = 1..MaxCalls
    /\ \E c, d \in 1..MaxCalls :
          /\ c # d
          /\ calls[c].pc = "done" /\ calls[d].pc = "done"
          /\ calls[c].kind = "validate" /\ calls[d].kind = "validate"
          /\ calls[c].status = << StatusSuccess >>
          /\ calls[d].status = << StatusBadRelyingPartyIDNoJSONMatchHitLimits >>
          /\ Cardinality(calls[c].uniqueLabels) = 3
          /\ Cardinality(calls[d].uniqueLabels) = MaxLabels

(* ------------------------------------------------------------------ *)
(* C22                                                                 *)
(* ------------------------------------------------------------------ *)

\* the states of the claim: Scanning while the call runs, then the state
\* named after the status the call returned
MachineState ==
    IF pc # "done" THEN "Scanning"
    ELSE CASE status = << StatusSuccess >> -> "Success"
           [] status = << StatusBadRelyingPartyIDJSONParseError >> -> "ParseError"
           [] status = << StatusBadRelyingPartyIDNoJSONMatch >> -> "NoMatch"
           [] status = << StatusBadRelyingPartyIDNoJSONMatchHitLimits >> -> "NoMatchHitLimits"
           [] OTHER -> "None"

\* C22: every call of ValidateWellKnownJSON starts in Scanning, takes at
\* most one scan step per entry of the decoded list, and eventually reaches
\* one of Success, ParseError, NoMatch, NoMatchHitLimits, which no step
\* leaves; the scan never reads past the list.
C22_CallTerminates ==
    /\ MachineState = "Scanning"
    /\ <>(MachineState \in { "Success", "ParseError", "NoMatch", "NoMatchHitLimits" })
    /\ [](MachineState # "None")
    /\ [](idx <= Len(webAuthnResp.Origins))
    /\ [][ /\ MachineState = "Scanning"
           /\ idx' # idx => (pc = "scan" /\ idx' = idx + 1) ]_vars

\* the call has returned from the loop after one step for each of the
\* entries of a list longer than the budget
C22_Witness ==
    /\ MachineState = "NoMatchHitLimits"
    /\ idx = Len(webAuthnResp.Origins)
    /\ idx > MaxLabels

(* ------------------------------------------------------------------ *)
(* C23                                                                 *)
(* ------------------------------------------------------------------ *)

\* uniqueLabels holds at most MaxLabels labels: the first MaxLabels distinct
\* labels of the entries taken so far, or all of them when they are fewer
SeenLabelsAreFirstDistinct ==
    /\ Cardinality(uniqueLabels) <= MaxLabels
    /\ (pc \in { "scan", "done" } /\ WellFormedCall) =>
          LET d == DistinctLabels(idx)
          IN  uniqueLabels = Range(SubSeq(d, 1, Min(MaxLabels, Len(d))))

\* C23: in every state of the scan uniqueLabels holds at most MaxLabels
\* labels, namely the first min(MaxLabels, k) of the k distinct labels of
\* the entries scanned so far; no step removes a label; once it holds
\* MaxLabels labels no step changes it, and the scan still takes the
\* remaining entries one by one.
C23_SeenLabelsBounded ==
    /\ []SeenLabelsAreFirstDistinct
    /\ [][ /\ uniqueLabels \subseteq uniqueLabels'
           /\ Cardinality(uniqueLabels) = MaxLabels =>
                 /\ uniqueLabels' = uniqueLabels
                 /\ (pc = "scan" /\ idx < Len(webAuthnResp.Origins)) => idx' = idx + 1
         ]_vars

\* the budget is used up, a sixth label was turned away and an entry is
\* still to come
C23_Witness ==
    /\ pc = "scan" /\ WellFormedCall
    /\ Cardinality(uniqueLabels) = MaxLabels
    /\ hitLimits
    /\ Len(DistinctLabels(idx)) > MaxLabels
    /\ idx < Len(webAuthnResp.Origins)

(* ------------------------------------------------------------------ *)
(* C24                                                                 *)
(* ------------------------------------------------------------------ *)

\* the scheme and the host of an origin string as they are written
RawScheme(s) == IF Len(s) >= 2 /\ s[2] = SchemeSep THEN s[1] ELSE ""
RawHost(s) == IF Len(s) >= 2 /\ s[2] = SchemeSep THEN SubSeq(s, 3, Len(s)) ELSE EmptyString

\* the labels of the hosts of the entries 1..n as written
RawLabels(n) == { getLabel(RawHost(Entry(k))).label : k \in 1..n }

\* hosts that differ in letter case only have different labels, and each
\* takes a slot of the budget: uniqueLabels holds as many labels as the hosts
\* scanned so far have, up to MaxLabels, and hitLimits is set exactly when
\* they have more
CaseVariantsAreDistinctLabels ==
    (pc \in { "scan", "done" } /\ WellFormedCall) =>
        /\ \A j, k \in 1..idx :
              (/\ RawHost(Entry(j)) # RawHost(Entry(k))
               /\ FoldCase(RawHost(Entry(j))) = FoldCase(RawHost(Entry(k)))) =>
                  getLabel(RawHost(Entry(j))).label # getLabel(RawHost(Entry(k))).label
        /\ Cardinality(uniqueLabels) = Min(MaxLabels, Cardinality(RawLabels(idx)))
        /\ hitLimits <=> Cardinality(RawLabels(idx)) > MaxLabels

TestLabels == << << "example" >>, << "test" >>, << "another" >>, << "subdomain" >> >>

\* C25: as the package tests assert it, the census keys UniqueLabels by
\* the bare leftmost label of each host: for the four test origins it
\* reports Count 4 with "example", "test", "another" and "subdomain" among
\* the keys, and Count 3 with the first three when the last origin is
\* absent; the labels of example.com and subdomain.example.com differ.
C25_CensusKeysBareLabels ==
    \A n \in { 3, 4 } :
        (/\ pc \in { "counted", "exit" }
         /\ CensusSucceeded
         /\ jsonData = OriginsDocument(SubSeq(TestOrigins, 1, n))) =>
            /\ result[1].Count = n
            /\ ~result[1].ExceedsLimit
            /\ \A k \in 1..n : TestLabels[k] \in result[1].UniqueLabels.keys
            /\ n = 4 => result[1].LabelsFound[1] # result[1].LabelsFound[4]

(* ------------------------------------------------------------------ *)
(* C26                                                                 *)
(* ------------------------------------------------------------------ *)

\* r carries nothing but a URL and the message msg
OnlyURLAndMessage(r, msg) ==
    /\ r.URL = WellKnownURL(fetch.target)
    /\ r.ErrorMessage = msg
    /\ r.RawJSON = <<>>
    /\ LabelFieldsUnpopulated(r)

\* the response has arrived: the domain parsed and the request was answered
Answered == fetch.mode = "http" /\ fetch.failure \in { "none", "read" }

\* C26: CountLabels checks the transport in a fixed order before any JSON
\* logic.  A status other than 200 gives a result with only URL and an
\* ErrorMessage naming the status code, whatever the content type and the
\* body; otherwise a Content-Type without application/json gives a result
\* with only URL and an ErrorMessage naming the content type; only then is
\* the body read and parsed.  In both cases RawJSON and the label fields are
\* empty and the Go error is nil.
C26_TransportChecksInOrder ==
    (pc \in { "counted", "exit" } /\ Answered) =>
        IF fetch.StatusCode # HTTPStatusOK
        THEN /\ result # <<>> /\ ~err
             /\ OnlyURLAndMessage(result[1],
                    << "HTTP request failed with status code: " >> \o Itoa(fetch.StatusCode))
        ELSE IF ~Contains(fetch.ContentType, "application/json")
        THEN /\ result # <<>> /\ ~err
             /\ OnlyURLAndMessage(result[1],
                    << "unexpected content type: " >> \o fetch.ContentType)
        ELSE IF fetch.failure = "read"
        THEN result = <<>> /\ err
        ELSE /\ result # <<>> /\ ~err
             /\ result[1].RawJSON = << jsonData >>

\* a 404 with an HTML content type and a body that cannot be read: the
\* status code is what the result reports
C26_Witness ==
    /\ pc = "counted" /\ Answered
    /\ fetch.StatusCode = 404
    /\ ~Contains(fetch.ContentType, "application/json")
    /\ fetch.failure = "read"
    /\ result # <<>> /\ ~err
    /\ Atoi(SubSeq(result[1].ErrorMessage, 2, Len(result[1].ErrorMessage))) = 404
    /\ result[1].RawJSON = <<>>

(* ------------------------------------------------------------------ *)
(* C27                                                                 *)
(* ------------------------------------------------------------------ *)

\* ValidateWellKnownJSON has returned s to the validate command, which holds
\* the census of the same bytes in result
ValidatedAfterCensus(s) ==
    /\ pc \in { "done", "exit" }
    /\ status = << s >>
    /\ result # <<>>

\* C27: for a well-formed origin list and a caller that parses, validate
\* and census agree on the budget: NO_JSON_MATCH_HIT_LIMITS implies that the
\* census of the same bytes has ExceedsLimit, and ExceedsLimit implies that
\* validate returns SUCCESS or NO_JSON_MATCH_HIT_LIMITS.
C27_ValidateCensusBudgetAgree ==
    (WellFormedCall /\ pc \in { "done", "exit" } /\ status # <<>>) =>
        /\ result # <<>> /\ CensusSucceeded
        /\ ValidatedAfterCensus(StatusBadRelyingPartyIDNoJSONMatchHitLimits) =>
              result[1].ExceedsLimit
        /\ result[1].ExceedsLimit =>
              \/ ValidatedAfterCensus(StatusSuccess)
              \/ ValidatedAfterCensus(StatusBadRelyingPartyIDNoJSONMatchHitLimits)

\* the census is over the limit and validate has returned SUCCESS without
\* having met a label over budget
C27_Witness ==
    /\ WellFormedCall
    /\ ValidatedAfterCensus(StatusSuccess)
    /\ result[1].ExceedsLimit
    /\ ~hitLimits

(* ------------------------------------------------------------------ *)
(* C28                                                                 *)
(* ------------------------------------------------------------------ *)

\* the caller parses, and its host is empty or has no dot
CallerWithoutLabel == ~Caller.err /\ (Caller.Host = EmptyString \/ ~HasDot(Caller.Host))

\* C28: ValidateWellKnownJSON returns SUCCESS only if some entry of the
\* list that is not skipped has the caller's scheme and host; hence a caller
\* whose parsed host is empty or has no dot never receives SUCCESS, whatever
\* the document, even when the list holds the caller string verbatim.
C28_SuccessIsSound ==
    /\ Returned(StatusSuccess) =>
          \E k \in 1..Len(webAuthnResp.Origins) :
              /\ ~SkippedEntry(webAuthnResp.Origins[k])
              /\ ParseURL(webAuthnResp.Origins[k]).Scheme = Caller.Scheme
              /\ ParseURL(webAuthnResp.Origins[k]).Host = Caller.Host
    /\ CallerWithoutLabel => status # << StatusSuccess >>

\* a caller without label whose string is in the list, scanned to the end
C28_Witness ==
    /\ pc = "done" /\ CallerWithoutLabel
    /\ idx = Len(webAuthnResp.Origins)
    /\ \E k \in 1..idx : webAuthnResp.Origins[k] = callerOrigin
    /\ status = << StatusBadRelyingPartyIDNoJSONMatch >>

(* ------------------------------------------------------------------ *)
(* C29                                                                 *)
(* ------------------------------------------------------------------ *)

\* the list a.com, b.com, c.com, d.com, foo.de, x.com, foo.com
LateMatchList ==
    SubSeq(DistinctFill, 1, MaxLabels - 1)
        \o << Origin("https", Host2("foo", "de")),
              Origin("https", Host2("x", "com")),
              Origin("https", Host2("foo", "com")) >>

\* hitLimits is set, and the entry the scan takes next has an admitted
\* label and the caller's scheme and host
AdmittedMatchAfterLimit ==
    /\ pc = "scan" /\ hitLimits /\ idx < Len(webAuthnResp.Origins)
    /\ ~SkippedEntry(webAuthnResp.Origins[idx + 1])
    /\ LabelOfEntry(webAuthnResp.Origins[idx + 1]) \in uniqueLabels
    /\ ParseURL(webAuthnResp.Origins[idx + 1]).Scheme = callerURL.Scheme
    /\ ParseURL(webAuthnResp.Origins[idx + 1]).Host = callerURL.Host

Swap(l, k) ==
    [j \in 1..Len(l) |-> IF j = k THEN l[k + 1] ELSE IF j = k + 1 THEN l[k] ELSE l[j]]

Reverse(l) == [j \in 1..Len(l) |-> l[Len(l) + 1 - j]]

\* rearrangements of l: every exchange of two neighbours, and l backwards
Rearranged(l) == { Swap(l, k) : k \in 1..(Len(l) - 1) } \cup { Reverse(l) }

\* l with entries repeated: one entry once more at the end, or all of them
WithRepeats(l) == { Append(l, l[k]) : k \in 1..Len(l) } \cup { l \o l }

\* the census of list l, for the source of result r
CensusOfList(r, l) == CountDocument(r.URL, OriginsDocument(l))

\* the census results r and q differ in the order of LabelsFound at most
SameCensus(r, q) ==
    /\ q.UniqueLabels = r.UniqueLabels
    /\ q.Count = r.Count
    /\ q.ExceedsLimit = r.ExceedsLimit
    /\ Range(q.LabelsFound) = Range(r.LabelsFound)
    /\ Len(q.LabelsFound) = Len(r.LabelsFound)
    /\ q.ErrorMessage = r.ErrorMessage

\* the tests' list a.com .. e.com, foo.com, and the same with the last two
\* entries exchanged
MatchAtEnd == DistinctFill \o << FooOrigin >>
MatchInTheMiddle == Swap(MatchAtEnd, MaxLabels)

\* the census of the validate command has returned for an origin list
CensusOfListDone ==
    /\ pc = "census"
    /\ CensusSucceeded
    /\ IsOriginList(jsonData)

\* C30: the census label set is insensitive to order and to duplicates,
\* validate is not.  The census depends on the set of entries only: its
\* keys are the labels of the entries that are not skipped, Count their
\* number, ExceedsLimit whether that is more than MaxLabels; rearranging the
\* list or repeating entries leaves UniqueLabels, Count and ExceedsLimit as
\* they are and changes at most the order of LabelsFound.  The validate
\* status of caller https://foo.com is NO_JSON_MATCH_HIT_LIMITS for a.com,
\* b.com, c.com, d.com, e.com, foo.com and SUCCESS for the same list with
\* the last two exchanged.
C30_CensusOrderFreeValidateNot ==
    /\ ValidateWellKnownJSON(FooOrigin, OriginsDocument(MatchAtEnd))
          = StatusBadRelyingPartyIDNoJSONMatchHitLimits
    /\ ValidateWellKnownJSON(FooOrigin, OriginsDocument(MatchInTheMiddle)) = StatusSuccess
    /\ SameCensus(CountDocument(FilePath, OriginsDocument(MatchAtEnd)),
                  CountDocument(FilePath, OriginsDocument(MatchInTheMiddle)))
    /\ [](CensusOfListDone =>
            LET r == result[1]
                entries == Listed
                labels == { LabelOfEntry(e) :
                              e \in { x \in Range(entries) : ~SkippedEntry(x) } }
            IN  /\ r.UniqueLabels.keys = labels
                /\ r.Count = Cardinality(labels)
                /\ r.ExceedsLimit <=> Cardinality(labels) > MaxLabels
                /\ \A v \in Rearranged(entries) \cup WithRepeats(entries) :
                      SameCensus(r, CensusOfList(r, v)))

\* validate has returned NO_JSON_MATCH_HIT_LIMITS for a list of which a
\* rearrangement gives SUCCESS, the census of both being the same
C30_Witness ==
    /\ pc = "done" /\ WellFormedCall /\ CensusSucceeded
    /\ status = << StatusBadRelyingPartyIDNoJSONMatchHitLimits >>
    /\ result[1].ExceedsLimit
    /\ \E v \in Rearranged(Listed) :
          /\ ValidateWellKnownJSON(callerOrigin, OriginsDocument(v)) = StatusSuccess
          /\ SameCensus(result[1], CensusOfList(result[1], v))

====
